---------------------------- MODULE Spec2Model ----------------------------
(***************************************************************************)
(* Model of the CC1101 driver in src/cc1101/cc1101.py: the SPI framing     *)
(* layer (class SPI), the received-packet accessors (class ReceivedPacket) *)
(* and the controller (class CC1101) with its transmit / receive poll      *)
(* loops and its composite-register field setters.                         *)
(*                                                                         *)
(* Conventions.                                                            *)
(*  - The chip's configuration registers are the function regs, indexed by *)
(*    register address (types.py, Config).  write_reg(addr, value) stores  *)
(*    value in regs[addr], read_reg(addr) yields regs[addr].  The BitArray *)
(*    that read_reg builds is represented by the unsigned byte it holds.   *)
(*  - Every call of an SPI method is recorded as a bus operation           *)
(*    [op, addr, arg, out, reply]: the method, the address and values it   *)
(*    was given, the bytes it hands to the transport, and what it returns. *)
(*  - A transfer (spi_xfer) answers with as many bytes as it was sent: the *)
(*    byte clocked in under the header byte is the chip status byte.       *)
(*  - send_data and receive_data are coroutines.  An action is one run of  *)
(*    a coroutine between two suspension points (await asyncio.sleep).     *)
(*  - Synchronous methods (begin, the setters) run to completion in one    *)
(*    action and leave their record in last.                               *)
(***************************************************************************)
EXTENDS Integers, Sequences, FiniteSets, TLC

----------------------------------------------------------------------------
(* Bounds of the model *)

\* longest payload handed to send_data / carried by a received frame
MaxLen == 3
\* polls of one run that the bus log keeps (older polls of the run are dropped)
MaxPolls == 2

\* The controller has a single owner that makes one call at a time
\* (exclusive, non-reentrant access to the bus): the task that runs its coroutines
Owner == {1}

----------------------------------------------------------------------------
(* types.py: addresses *)

SYNC1 == 4
SYNC0 == 5
PKTLEN == 6
PKTCTRL1 == 7
PKTCTRL0 == 8
ADDR == 9
CHANNR == 10
FREQ2 == 13
FREQ1 == 14
FREQ0 == 15
MDMCFG4 == 16
MDMCFG3 == 17
MDMCFG2 == 18
MDMCFG1 == 19
MDMCFG0 == 20
DEVIATN == 21
FREND0 == 34
SFRX == 58
PATABLE == 62
SFTX == 59
VERSION == 49
LQI == 51
RSSI == 52
MARCSTATE == 53
RXBYTES == 59
TXFIFO == 63
RXFIFO == 63
\* Modulation.FSK2, Modulation.ASK
FSK2 == 0
ASK == 3

\* class Config: the configuration registers that the modelled methods read or write
ConfigAddrs ==
    {SYNC1, SYNC0, PKTLEN, PKTCTRL1, PKTCTRL0, ADDR, CHANNR, FREQ2, FREQ1, FREQ0,
     MDMCFG4, MDMCFG3, MDMCFG2, MDMCFG1, MDMCFG0, DEVIATN, FREND0}

\* class Modulation: the values of the enumeration
Modulation == {0, 1, 3, 4, 7}

(* class SPI: flags *)
WRITE_BURST == 64
READ_SINGLE == 128
READ_BURST == 192

----------------------------------------------------------------------------
(* Inputs *)

\* payload bytes used on the air and in the FIFOs
DataBytes == {170, 187}

ByteSeqs == UNION {[1..n -> DataBytes] : n \in 0..MaxLen}

\* send_data's payload argument: bytes, or an int (a str is its encoded bytes)
IntPayloads == {0, 255, 300}
Payloads ==
    [type : {"bytes"}, bytes : ByteSeqs, int : {0}]
      \cup [type : {"int"}, bytes : {<<>>}, int : IntPayloads]
NoArg == [type |-> "none", bytes |-> <<>>, int |-> 0]

\* what the chip answers to a read of RSSI and of LQI
RssiValues == {80, 208}
LqiValues == {42, 176}
\* what the chip answers to a poll of MARCSTATE (1 = IDLE, 19 = TX, 13 = RX)
MarcStates == {1, 13, 19}
\* what the chip answers to a poll of RXBYTES (bit 7: overflow flag)
RxCounts == {0, 128, 5, 133}
\* chip status byte clocked in under a header byte
ChipStatus == {15, 143}
\* the two trailing bytes of a frame when the chip appends status:
\* <<rssiRaw, statusByte>>
Trailers == {<<80, 176>>, <<208, 42>>}
\* the silicon version register
Versions == {0, 20}
\* bit rate given to begin, in kBaud
Kbauds == {500}

\* A frame as the chip puts it in the RX FIFO:
\* [length][payload...] and, with append-status, [rssiRaw][statusByte]
Frames(appended) ==
    IF appended
    THEN {[payload |-> p, appended |-> TRUE, rssi |-> tr[1], status |-> tr[2]] :
              p \in ByteSeqs, tr \in Trailers}
    ELSE [payload : ByteSeqs, appended : {FALSE}, rssi : {0}, status : {0}]

FrameBytes(f) ==
    <<Len(f.payload)>> \o f.payload
        \o (IF f.appended THEN <<f.rssi, f.status>> ELSE <<>>)

NoFrame == [payload |-> <<>>, appended |-> FALSE, rssi |-> 0, status |-> 0]

----------------------------------------------------------------------------
(* Bit arithmetic on non-negative integers *)

RECURSIVE BitOr(_, _)
BitOr(a, b) ==
    IF a = 0 THEN b
    ELSE IF b = 0 THEN a
    ELSE (IF (a % 2 = 1) \/ (b % 2 = 1) THEN 1 ELSE 0) + 2 * BitOr(a \div 2, b \div 2)

RECURSIVE BitAnd(_, _)
BitAnd(a, b) ==
    IF a = 0 \/ b = 0 THEN 0
    ELSE (IF (a % 2 = 1) /\ (b % 2 = 1) THEN 1 ELSE 0) + 2 * BitAnd(a \div 2, b \div 2)

\* bits hi..lo of v, as a number
Bits(v, hi, lo) == (v \div (2 ^ lo)) % (2 ^ (hi - lo + 1))

RECURSIVE Zeros(_)
Zeros(n) == IF n <= 0 THEN <<>> ELSE <<0>> \o Zeros(n - 1)

\* Python's round() of the quotient p / q (q > 0): to the nearest integer, a
\* tie to the even one.  Floating-point values are modelled as exact decimals;
\* the inputs are chosen away from the ties and thresholds where the rounding
\* error of a double could matter.
round(p, q) ==
    LET f == p \div q
        r2 == 2 * (p - f * q)
    IN  IF r2 < q THEN f
        ELSE IF r2 > q THEN f + 1
        ELSE IF f % 2 = 0 THEN f ELSE f + 1

----------------------------------------------------------------------------
VARIABLES
    regs,        \* chip configuration registers, by address
    modulation,  \* CC1101._modulation
    handle,      \* SPI._handle
    pc,          \* per task: where its coroutine is suspended
    call,        \* per task: the coroutine it called last, and the argument
    busLog,      \* per task: bus operations of its current (or last) coroutine call
    ret,         \* per task: outcome of its last coroutine call
    rxFrame,     \* per task: the frame the RX FIFO delivered to its last receive_data
    txFifo,      \* what was written to the TX FIFO since it was last flushed, and by whom
    last,        \* record of the last synchronous call
    configFile,  \* the file at AsyncConfigManager.config_file, as the loader finds it
    config,      \* AsyncConfigManager.config
    on_reload,   \* AsyncConfigManager.on_reload: the kind of callback supplied
    watch_task,  \* AsyncConfigManager._watch_task
    changes,     \* whether awatch has a change of the config file to report
    lastLoad,    \* record of the last run of load_config
    lastOp       \* the last call of start, stop or get, and its outcome

\* the state of the radio controller and of its callers
controller == <<regs, modulation, handle, pc, call, busLog, ret, rxFrame, txFifo, last>>

\* the state of the configuration manager and of its file
manager == <<configFile, config, on_reload, watch_task, changes, lastLoad, lastOp>>

vars == <<regs, modulation, handle, pc, call, busLog, ret, rxFrame, txFifo, last,
          configFile, config, on_reload, watch_task, changes, lastLoad, lastOp>>

----------------------------------------------------------------------------
(* class SPI: each method as the bus operation it performs *)

BusOp(op, addr, arg, out, reply) ==
    [op |-> op, addr |-> addr, arg |-> arg, out |-> out, reply |-> reply]

spi_begin(baud) == BusOp("begin", 0, <<baud>>, <<>>, <<>>)

write_reg(addr, value) == BusOp("write_reg", addr, <<value>>, <<addr + value>>, <<>>)

write_burst(addr, value) ==
    BusOp("write_burst", addr, value, <<BitOr(addr, WRITE_BURST)>> \o value, <<>>)

strobe(s) == BusOp("strobe", s, <<>>, <<s>>, <<>>)

read_reg(addr, v) == BusOp("read_reg", addr, <<>>, <<BitOr(addr, READ_SINGLE), 0>>, <<v>>)

read_burst(addr, num, data) ==
    BusOp("read_burst", addr, <<num>>, <<BitOr(addr, READ_BURST)>> \o Zeros(num), data)

read_status_reg(addr, v) ==
    BusOp("read_status_reg", addr, <<>>, <<BitOr(addr, READ_BURST), 0>>, <<v>>)

\* the chip register after write_reg(addr, value): 8 bits wide
Written(r, addr, value) == [r EXCEPT ![addr] = value % 256]

----------------------------------------------------------------------------
(* class ReceivedPacket: the accessors, on the list the packet was built from *)

Value(v) == [raised |-> "", value |-> v]
Raised(e) == [raised |-> e, value |-> 0]

\* rssi in dBm is rssi2 / 2: the division by two is kept exact by doubling
ReceivedPacket_rssi2(d) ==
    IF Len(d) < 2 THEN Raised("IndexError")
    ELSE IF d[2] >= 128 THEN Value((d[2] - 256) - 148)
    ELSE Value(d[2] - 148)

ReceivedPacket_lqi(d) ==
    IF Len(d) < 1 THEN Raised("IndexError")
    ELSE Value((((d[1] * 2) % 256)) \div 2)

ReceivedPacket_valid(d) ==
    IF Len(d) < 1 THEN Raised("IndexError")
    ELSE Value(d[1] \div 128)

ReceivedPacket_data(d) == SubSeq(d, 3, Len(d))

----------------------------------------------------------------------------
(* Outcomes *)

Returned(kind, data) == [kind |-> kind, data |-> data]

Pending == Returned("pending", <<>>)

Called(op, arg) == [op |-> op, arg |-> arg]

NoCall(r) == [op |-> "none", arg |-> <<>>, pre |-> r, log |-> <<>>, ret |-> Pending]

SyncCall(op, arg, log, result) ==
    [op |-> op, arg |-> arg, pre |-> regs, log |-> log, ret |-> result]

----------------------------------------------------------------------------
(* The bus log of a coroutine call.  A run of consecutive polls of one     *)
(* register keeps its latest MaxPolls entries, so that a call that polls   *)
(* for ever has finitely many logs.                                        *)

IsPoll(e, addr) == e.op = "read_reg" /\ e.addr = addr

RECURSIVE TrailingPolls(_, _)
TrailingPolls(log, addr) ==
    IF log = <<>> \/ ~IsPoll(log[Len(log)], addr) THEN 0
    ELSE 1 + TrailingPolls(SubSeq(log, 1, Len(log) - 1), addr)

AppendPoll(log, e) ==
    LET k == TrailingPolls(log, e.addr)
    IN  IF k < MaxPolls THEN Append(log, e)
        ELSE SubSeq(log, 1, Len(log) - k) \o SubSeq(log, Len(log) - k + 2, Len(log)) \o <<e>>

----------------------------------------------------------------------------
(* CC1101.send_data *)

\* int.to_bytes(length, byteorder="big")
RECURSIVE to_bytes(_, _)
to_bytes(n, length) ==
    IF length <= 0 THEN <<>>
    ELSE Append(to_bytes(n \div 256, length - 1), n % 256)

\* lines 220-224: the list handed to write_burst
PayloadList(payload) ==
    IF payload.type = "int"
    THEN to_bytes(payload.int, -((-payload.int) \div 255))
    ELSE payload.bytes

\* line 224: what task t writes to the TX FIFO
TxWrite(t, data) == [by |-> t, data |-> data]

\* a loop test that lets every machine state through
send_data_waits_never(m) == FALSE

\* line 225: the loop test, on the value the poll returned
send_data_waits(m) == m # 1

\* a loop that polls again at once, without sleeping after the first poll
send_data_poll_spins(t, log, fifo, m) ==
    /\ txFifo' = IF m # 1 THEN fifo ELSE <<>>
    /\ LET polled == AppendPoll(AppendPoll(log, read_reg(MARCSTATE, m)),
                                read_reg(MARCSTATE, m))
       IN  IF m # 1
           THEN /\ pc' = [pc EXCEPT ![t] = "send_data_sleep"]
                /\ busLog' = [busLog EXCEPT ![t] = polled]
                /\ ret' = [ret EXCEPT ![t] = Pending]
           ELSE /\ pc' = [pc EXCEPT ![t] = "idle"]
                /\ busLog' = [busLog EXCEPT ![t] = Append(polled, strobe(SFTX))]
                /\ ret' = [ret EXCEPT ![t] = Returned("None", <<>>)]
    /\ rxFrame' = [rxFrame EXCEPT ![t] = NoFrame]

\* lines 225-227, from one poll on: poll MARCSTATE, then sleep or strobe SFTX.
\* fifo is the content of the TX FIFO at the poll; the strobe flushes it.
send_data_poll(t, log, fifo, m) ==
    /\ txFifo' = IF send_data_waits(m) THEN fifo ELSE <<>>
    /\ LET polled == AppendPoll(log, read_reg(MARCSTATE, m))
       IN  IF send_data_waits(m)
           THEN /\ pc' = [pc EXCEPT ![t] = "send_data_sleep"]
                /\ busLog' = [busLog EXCEPT ![t] = polled]
                /\ ret' = [ret EXCEPT ![t] = Pending]
           ELSE /\ pc' = [pc EXCEPT ![t] = "idle"]
                /\ busLog' = [busLog EXCEPT ![t] = Append(polled, strobe(SFTX))]
                /\ ret' = [ret EXCEPT ![t] = Returned("None", <<>>)]
    /\ rxFrame' = [rxFrame EXCEPT ![t] = NoFrame]

\* a controller that admits one transmit at a time
send_data_may_start_alone(t) ==
    pc[t] = "idle" /\ \A u \in DOMAIN pc : pc[u] # "send_data_sleep"

\* line 219: a task that is running may call send_data; the controller holds
\* no lock, so calls of other tasks that are in progress do not matter
send_data_may_start(t) == pc[t] = "idle"

\* the call, up to its first suspension point or its return
send_data(t, payload, m) ==
    /\ send_data_may_start(t)
    /\ call' = [call EXCEPT ![t] = Called("send_data", payload)]
    /\ send_data_poll(t, <<write_burst(TXFIFO, PayloadList(payload))>>,
                      Append(txFifo, TxWrite(t, PayloadList(payload))), m)
    /\ UNCHANGED <<manager, regs, modulation, handle, last>>

\* the coroutine resumed after asyncio.sleep(0.001)
send_data_wake(t, m) ==
    /\ pc[t] = "send_data_sleep"
    /\ send_data_poll(t, busLog[t], txFifo, m)
    /\ UNCHANGED <<manager, regs, modulation, handle, call, last>>

----------------------------------------------------------------------------
(* CC1101.receive_data *)

\* a test on the whole byte, overflow flag included
receive_data_ready_any_bit(count) == count # 0

\* line 231: the test on the polled byte count
receive_data_ready(count) == BitAnd(count, 127) # 0

\* whether the chip appends the two status bytes: PKTCTRL1 bit 2
AppendStatus == Bits(regs[PKTCTRL1], 2, 2) = 1

\* lines 231-237, one pass of the loop: poll RXBYTES, then read the frame or sleep.
\* The RX FIFO holds a frame f; st is the chip status byte of the burst read.
receive_data_poll(t, log, count) ==
    LET polled == AppendPoll(log, read_reg(RXBYTES, count))
    IN  IF receive_data_ready(count)
        THEN \E f \in Frames(AppendStatus), st \in ChipStatus :
               LET fifo == FrameBytes(f)
                   length == fifo[1]
                   data == <<st>> \o SubSeq(fifo, 2, 1 + length)
               IN  /\ pc' = [pc EXCEPT ![t] = "idle"]
                   /\ busLog' = [busLog EXCEPT ![t] =
                                     polled \o <<read_reg(RXFIFO, length),
                                                 read_burst(RXFIFO, length, data),
                                                 strobe(SFRX)>>]
                   /\ ret' = [ret EXCEPT ![t] = Returned("ReceivedPacket", data)]
                   /\ rxFrame' = [rxFrame EXCEPT ![t] = f]
        ELSE /\ pc' = [pc EXCEPT ![t] = "receive_data_sleep"]
             /\ busLog' = [busLog EXCEPT ![t] = polled]
             /\ ret' = [ret EXCEPT ![t] = Pending]
             /\ rxFrame' = [rxFrame EXCEPT ![t] = NoFrame]

receive_data(t, count) ==
    /\ pc[t] = "idle"
    /\ call' = [call EXCEPT ![t] = Called("receive_data", NoArg)]
    /\ receive_data_poll(t, <<>>, count)
    /\ UNCHANGED <<manager, txFifo, regs, modulation, handle, last>>

receive_data_wake(t, count) ==
    /\ pc[t] = "receive_data_sleep"
    /\ receive_data_poll(t, busLog[t], count)
    /\ UNCHANGED <<manager, txFifo, regs, modulation, handle, call, last>>

----------------------------------------------------------------------------
(* CC1101.begin *)

begin(kbaud, v) ==
    /\ handle' = "open"
    /\ last' = SyncCall("begin", <<kbaud>>,
                        <<spi_begin(kbaud * 1000), read_status_reg(VERSION, v)>>,
                        Returned("bool", <<IF v # 0 THEN 1 ELSE 0>>))
    /\ UNCHANGED <<manager, txFifo, regs, modulation, pc, call, busLog, ret, rxFrame>>

----------------------------------------------------------------------------
(* CC1101.get_rssi, CC1101.get_lqi *)

\* lines 542-547; the result in dBm is half the number given here
get_rssi_returns(rssi) ==
    Returned("float", <<IF rssi >= 128 THEN (rssi - 256) - 148 ELSE rssi - 148>>)

get_rssi(rssi) ==
    /\ last' = SyncCall("get_rssi", <<>>, <<read_status_reg(RSSI, rssi)>>,
                        get_rssi_returns(rssi))
    /\ UNCHANGED <<manager, txFifo, regs, modulation, handle, pc, call, busLog, ret, rxFrame>>

get_lqi(lqi) ==
    /\ last' = SyncCall("get_lqi", <<>>, <<read_status_reg(LQI, lqi)>>,
                        Returned("int", <<lqi>>))
    /\ UNCHANGED <<manager, txFifo, regs, modulation, handle, pc, call, busLog, ret, rxFrame>>

----------------------------------------------------------------------------
(* Field decomposition of the composite registers *)

\* _split_pktctrl1, lines 130-141, on the value read at line 128
RECURSIVE split_pktctrl1_loop(_, _, _, _)
split_pktctrl1_loop(val, pqt, crc_af, app_st) ==
    IF val >= 4
    THEN IF val >= 32 THEN split_pktctrl1_loop(val - 32, pqt + 32, crc_af, app_st)
         ELSE IF val >= 8 THEN split_pktctrl1_loop(val - 8, pqt, crc_af + 8, app_st)
         ELSE split_pktctrl1_loop(val - 4, pqt, crc_af, app_st + 4)
    ELSE <<pqt, crc_af, app_st, val>>

\* <<pqt, crc_af, app_st, adrchk>>
split_pktctrl1(r) == split_pktctrl1_loop(r[PKTCTRL1], 0, 0, 0)

\* _split_pktctrl0, lines 147-158, on the value read at line 145
RECURSIVE split_pktctrl0_loop(_, _, _, _)
split_pktctrl0_loop(val, wdata, pktform, crc_en) ==
    IF val >= 4
    THEN IF val >= 64 THEN split_pktctrl0_loop(val - 64, wdata + 64, pktform, crc_en)
         ELSE IF val >= 16 THEN split_pktctrl0_loop(val - 16, wdata, pktform + 16, crc_en)
         ELSE split_pktctrl0_loop(val - 4, wdata, pktform, crc_en + 4)
    ELSE <<wdata, pktform, crc_en, val>>

\* line 145: the register _split_pktctrl0 reads
split_pktctrl0_reads == PKTCTRL1

\* <<wdata, pktform, crc_en, lenconf>>
split_pktctrl0(r) == split_pktctrl0_loop(r[split_pktctrl0_reads], 0, 0, 0)

\* _split_mdmcfg2, lines 178-189, on the value read at line 176
RECURSIVE split_mdmcfg2_loop(_, _, _, _)
split_mdmcfg2_loop(val, dcoff, modfm, manch) ==
    IF val >= 8
    THEN IF val >= 128 THEN split_mdmcfg2_loop(val - 182, dcoff + 128, modfm, manch)
         ELSE IF val >= 16 THEN split_mdmcfg2_loop(val - 16, dcoff, modfm + 16, manch)
         ELSE split_mdmcfg2_loop(val - 8, dcoff, modfm, manch + 8)
    ELSE <<dcoff, modfm, manch, val>>

\* <<dcoff, modfm, manch, syncm>>
split_mdmcfg2(r) == split_mdmcfg2_loop(r[MDMCFG2], 0, 0, 0)

\* _split_mdmcfg1, lines 164-172, on the value read at line 162
RECURSIVE split_mdmcfg1_loop(_, _, _)
split_mdmcfg1_loop(val, fec, pre) ==
    IF val >= 16
    THEN IF val >= 128 THEN split_mdmcfg1_loop(val - 128, fec + 128, pre)
         ELSE split_mdmcfg1_loop(val - 16, fec, pre + 16)
    ELSE <<fec, pre, val>>

\* <<fec, pre, chsp>>
split_mdmcfg1(r) == split_mdmcfg1_loop(r[MDMCFG1], 0, 0)

\* _split_mdmcfg4, lines 195-203, on the value read at line 193
RECURSIVE split_mdmcfg4_loop(_, _)
split_mdmcfg4_loop(val, rxbw) ==
    IF val >= 16
    THEN IF val >= 64 THEN split_mdmcfg4_loop(val - 64, rxbw + 64)
         ELSE split_mdmcfg4_loop(val - 16, rxbw + 16)
    ELSE <<rxbw, val>>

\* <<rxbw, dara>>
split_mdmcfg4(r) == split_mdmcfg4_loop(r[MDMCFG4], 0)

----------------------------------------------------------------------------
(* Field setters: read the register, replace one part, write the sum back *)

BoolArg(enable) == IF enable THEN 1 ELSE 0

\* a setter that reads register `reads` and writes `value` to register `addr`
FieldSetter(op, arg, reads, addr, value) ==
    /\ regs' = Written(regs, addr, value)
    /\ last' = SyncCall(op, <<arg>>,
                        <<read_reg(reads, regs[reads]), write_reg(addr, value)>>,
                        Returned("None", <<>>))
    /\ UNCHANGED <<manager, txFifo, modulation, handle, pc, call, busLog, ret, rxFrame>>

\* a getter: one read of register `reads`, no write
Getter(op, reads, result) ==
    /\ last' = SyncCall(op, <<>>, <<read_reg(reads, regs[reads])>>, result)
    /\ UNCHANGED <<manager, txFifo, regs, modulation, handle, pc, call, busLog, ret, rxFrame>>

\* bool(x)
bool(x) == IF x # 0 THEN 1 ELSE 0

(* the byte registers *)

\* set_address, lines 300-302: a value above 256 is reported on the console
\* and written all the same
set_address(address) ==
    /\ regs' = Written(regs, ADDR, address)
    /\ last' = SyncCall("set_address", <<address>>, <<write_reg(ADDR, address)>>,
                        Returned("None", <<>>))
    /\ UNCHANGED <<manager, txFifo, modulation, handle, pc, call, busLog, ret, rxFrame>>

get_address_returns(r) == Returned("int", <<r[ADDR]>>)
get_address == Getter("get_address", ADDR, get_address_returns(regs))

\* set_sync_word, lines 291-294
set_sync_word(sh, sl) ==
    /\ regs' = Written(Written(regs, SYNC1, sh), SYNC0, sl)
    /\ last' = SyncCall("set_sync_word", <<sh, sl>>,
                        <<write_reg(SYNC1, sh), write_reg(SYNC0, sl)>>,
                        Returned("None", <<>>))
    /\ UNCHANGED <<manager, txFifo, modulation, handle, pc, call, busLog, ret, rxFrame>>

\* set_channel, lines 443-445
set_channel(channel) ==
    /\ regs' = Written(regs, CHANNR, channel)
    /\ last' = SyncCall("set_channel", <<channel>>, <<write_reg(CHANNR, channel)>>,
                        Returned("None", <<>>))
    /\ UNCHANGED <<manager, txFifo, modulation, handle, pc, call, busLog, ret, rxFrame>>

\* set_deviation, lines 521-533.  c is 0 at the top of every pass (line 532
\* multiplies it by one), so the test c == 7 at line 525 never holds: v keeps
\* its first value 0.19836425 and i grows by one a pass, and after the pass
\* that starts with i the sum f is (i + 1) * 0.19836425.  The loop leaves with
\* c = i at the first pass where f >= deviation, and with c = 0 when no pass
\* below 255 gets there.
\* A deviation is a whole number of millionths of a kHz, and
\* (i + 1) * 0.19836425 >= deviation / 10^6 is (i + 1) * 793457 >= 4 * deviation.
deviation_loop(deviation) ==
    LET reached == {i \in 0..254 : (i + 1) * 793457 >= 4 * deviation}
    IN  IF reached = {} THEN 0
        ELSE CHOOSE i \in reached : \A j \in reached : i <= j

set_deviation(deviation) ==
    LET c == deviation_loop(deviation)
    IN  /\ regs' = Written(regs, DEVIATN, c)
        /\ last' = SyncCall("set_deviation", <<deviation>>, <<write_reg(DEVIATN, c)>>,
                            Returned("None", <<>>))
        /\ UNCHANGED <<manager, txFifo, modulation, handle, pc, call, busLog, ret, rxFrame>>

(* base frequency *)

\* line 281: int(frequency / 0.0003967285157216339).  A frequency is a whole
\* number of kHz; the divisor is 26 MHz / 2^16, that is 1625 / 4096 kHz.
base_frequency_word(frequency) ==
    4096 * (frequency \div 1625) + (4096 * (frequency % 1625)) \div 1625

\* set_base_frequency, lines 281-283: three bytes, written in one burst that
\* starts at FREQ2 and fills FREQ2, FREQ1, FREQ0
set_base_frequency(frequency) ==
    LET f_reg_val == to_bytes(base_frequency_word(frequency), 3)
    IN  /\ regs' = [regs EXCEPT ![FREQ2] = f_reg_val[1],
                                ![FREQ1] = f_reg_val[2],
                                ![FREQ0] = f_reg_val[3]]
        /\ last' = SyncCall("set_base_frequency", <<frequency>>,
                            <<write_burst(FREQ2, f_reg_val)>>,
                            Returned("None", <<>>))
        /\ UNCHANGED <<manager, txFifo, modulation, handle, pc, call, busLog, ret, rxFrame>>

\* int.from_bytes(b, byteorder="big", signed=False)
RECURSIVE from_bytes(_)
from_bytes(b) ==
    IF b = <<>> THEN 0
    ELSE 256 * from_bytes(SubSeq(b, 1, Len(b) - 1)) + b[Len(b)]

\* line 286: what read_burst(FREQ2, 3) returns, the whole reply of the
\* transfer: the chip status byte st, then the three registers
get_base_frequency_reads(r, st) == <<st, r[FREQ2], r[FREQ1], r[FREQ0]>>

\* lines 287-288: the result in MHz is this number times 0.0003967285157216339
get_base_frequency_returns(r, st) ==
    Returned("float", <<from_bytes(get_base_frequency_reads(r, st))>>)

get_base_frequency(st) ==
    /\ last' = SyncCall("get_base_frequency", <<>>,
                        <<read_burst(FREQ2, 3, get_base_frequency_reads(regs, st))>>,
                        get_base_frequency_returns(regs, st))
    /\ UNCHANGED <<manager, txFifo, regs, modulation, handle, pc, call, busLog, ret, rxFrame>>

\* set_packet_length, lines 388-390
set_packet_length(length) ==
    /\ regs' = Written(regs, PKTLEN, length)
    /\ last' = SyncCall("set_packet_length", <<length>>, <<write_reg(PKTLEN, length)>>,
                        Returned("None", <<>>))
    /\ UNCHANGED <<manager, txFifo, modulation, handle, pc, call, busLog, ret, rxFrame>>

\* line 393: the bit array itself is returned
get_packet_length_returns(r) == Returned("BitArray", <<r[PKTLEN]>>)
get_packet_length == Getter("get_packet_length", PKTLEN, get_packet_length_returns(regs))

(* packet-control-1 *)

get_pqt_returns(r) == Returned("int", <<split_pktctrl1(r)[1]>>)
get_pqt == Getter("get_pqt", PKTCTRL1, get_pqt_returns(regs))

get_crc_af_returns(r) == Returned("bool", <<bool(split_pktctrl1(r)[2])>>)
get_crc_af == Getter("get_crc_af", PKTCTRL1, get_crc_af_returns(regs))

get_append_status_returns(r) == Returned("bool", <<bool(split_pktctrl1(r)[3])>>)
get_append_status == Getter("get_append_status", PKTCTRL1, get_append_status_returns(regs))

get_address_check_returns(r) == Returned("int", <<split_pktctrl1(r)[4]>>)
get_address_check == Getter("get_address_check", PKTCTRL1, get_address_check_returns(regs))

\* set_pqt, lines 308-312: the register is read and the three bits are set in
\* the bit array (which refuses a value wider than the slice); write_reg is
\* then called without its value argument, which is a TypeError: nothing is
\* written
set_pqt(threshold) ==
    /\ last' = SyncCall("set_pqt", <<threshold>>,
                        <<read_reg(PKTCTRL1, regs[PKTCTRL1])>>,
                        Returned(IF threshold > 7 THEN "CreationError" ELSE "TypeError",
                                 <<>>))
    /\ UNCHANGED <<manager, txFifo, regs, modulation, handle, pc, call, busLog, ret, rxFrame>>

set_crc_af(enable) ==
    LET s == split_pktctrl1(regs)
        crc_af == IF enable THEN 8 ELSE 0
    IN  FieldSetter("set_crc_af", BoolArg(enable), PKTCTRL1,
                    PKTCTRL1, s[1] + crc_af + s[3] + s[4])

set_append_status(enable) ==
    LET s == split_pktctrl1(regs)
        app_st == IF enable THEN 4 ELSE 0
    IN  FieldSetter("set_append_status", BoolArg(enable), PKTCTRL1,
                    PKTCTRL1, s[1] + s[2] + app_st + s[4])

set_address_check(value) ==
    LET v == IF value > 3 THEN 3 ELSE value
        s == split_pktctrl1(regs)
    IN  FieldSetter("set_address_check", value, PKTCTRL1,
                    PKTCTRL1, s[1] + s[2] + s[3] + v)

(* packet-control-0 *)

set_white_data(enable) ==
    LET s == split_pktctrl0(regs)
        wdata == IF enable THEN 64 ELSE 0
    IN  FieldSetter("set_white_data", BoolArg(enable), split_pktctrl0_reads,
                    PKTCTRL0, wdata + s[2] + s[3] + s[4])

set_pkt_format(value) ==
    LET v == IF value > 3 THEN 3 ELSE value
        s == split_pktctrl0(regs)
        pktform == v * 16
    IN  FieldSetter("set_pkt_format", value, split_pktctrl0_reads,
                    PKTCTRL0, s[1] + pktform + s[3] + s[4])

set_crc(enable) ==
    LET s == split_pktctrl0(regs)
        crc_en == IF enable THEN 4 ELSE 0
    IN  FieldSetter("set_crc", BoolArg(enable), split_pktctrl0_reads,
                    PKTCTRL0, s[1] + s[2] + crc_en + s[4])

set_length_config(value) ==
    LET v == IF value > 3 THEN 3 ELSE value
        s == split_pktctrl0(regs)
    IN  FieldSetter("set_length_config", value, split_pktctrl0_reads,
                    PKTCTRL0, s[1] + s[2] + s[3] + v)

get_white_data_returns(r) == Returned("bool", <<bool(split_pktctrl0(r)[1])>>)
get_white_data == Getter("get_white_data", split_pktctrl0_reads, get_white_data_returns(regs))

get_pkt_format_returns(r) == Returned("int", <<split_pktctrl0(r)[2]>>)
get_pkt_format == Getter("get_pkt_format", split_pktctrl0_reads, get_pkt_format_returns(regs))

get_crc_returns(r) == Returned("bool", <<bool(split_pktctrl0(r)[3])>>)
get_crc == Getter("get_crc", split_pktctrl0_reads, get_crc_returns(regs))

get_length_config_returns(r) == Returned("int", <<split_pktctrl0(r)[4]>>)
get_length_config == Getter("get_length_config", split_pktctrl0_reads, get_length_config_returns(regs))

(* modem-config-2 *)

\* line 402: not bool(dcoff)
get_dc_filter_returns(r) == Returned("bool", <<1 - bool(split_mdmcfg2(r)[1])>>)
get_dc_filter == Getter("get_dc_filter", MDMCFG2, get_dc_filter_returns(regs))

get_manchester_returns(r) == Returned("bool", <<bool(split_mdmcfg2(r)[3])>>)
get_manchester == Getter("get_manchester", MDMCFG2, get_manchester_returns(regs))

get_sync_mode_returns(r) == Returned("int", <<split_mdmcfg2(r)[4]>>)
get_sync_mode == Getter("get_sync_mode", MDMCFG2, get_sync_mode_returns(regs))

\* line 268: Modulation(bits 6..4), a ValueError when no member has that value
get_modulation_returns(r) ==
    LET m == Bits(r[MDMCFG2], 6, 4)
    IN  IF m \in Modulation THEN Returned("Modulation", <<m>>)
        ELSE Returned("ValueError", <<>>)
get_modulation == Getter("get_modulation", MDMCFG2, get_modulation_returns(regs))

set_dc_filter(enable) ==
    LET s == split_mdmcfg2(regs)
        dcoff == IF enable THEN 0 ELSE 128
    IN  FieldSetter("set_dc_filter", BoolArg(enable), MDMCFG2,
                    MDMCFG2, dcoff + s[2] + s[3] + s[4])

set_manchester(enable) ==
    LET s == split_mdmcfg2(regs)
        manch == IF enable THEN 8 ELSE 0
    IN  FieldSetter("set_manchester", BoolArg(enable), MDMCFG2,
                    MDMCFG2, s[1] + s[2] + manch + s[4])

set_sync_mode(syncm) ==
    LET v == IF syncm > 7 THEN 7 ELSE syncm
        s == split_mdmcfg2(regs)
    IN  FieldSetter("set_sync_mode", syncm, MDMCFG2,
                    MDMCFG2, s[1] + s[2] + s[3] + v)

(* modem-config-1 *)

get_fec_returns(r) == Returned("bool", <<bool(split_mdmcfg1(r)[1])>>)
get_fec == Getter("get_fec", MDMCFG1, get_fec_returns(regs))

get_pre_returns(r) == Returned("int", <<split_mdmcfg1(r)[2]>>)
get_pre == Getter("get_pre", MDMCFG1, get_pre_returns(regs))

set_fec(enable) ==
    LET s == split_mdmcfg1(regs)
        fec == IF enable THEN 128 ELSE 0
    IN  FieldSetter("set_fec", BoolArg(enable), MDMCFG1,
                    MDMCFG1, fec + s[2] + s[3])

set_pre(value) ==
    LET v == IF value > 7 THEN 7 ELSE value
        s == split_mdmcfg1(regs)
    IN  FieldSetter("set_pre", value, MDMCFG1,
                    MDMCFG1, s[1] + v * 7 + s[3])

\* set_channel_spacing, lines 454-462: i passes of the loop done, the spacing
\* halved i times.  A spacing is a whole number of millionths of a kHz.
\* Yields <<chsp, mdmcfg0>>.
RECURSIVE channel_spacing_loop(_, _, _)
channel_spacing_loop(spacing, i, chsp) ==
    IF i = 5 THEN <<chsp, 0>>
    ELSE IF spacing <= 50682068 * (2 ^ i)
         THEN <<chsp, round(2 * (spacing - 25390625 * (2 ^ i)), 198365 * (2 ^ i))>>
         ELSE channel_spacing_loop(spacing, i + 1, chsp + 1)

\* line 450 unpacks the split as _, fec, pre: fec holds the preamble part and
\* pre the low four bits
set_channel_spacing(spacing) ==
    LET s == split_mdmcfg1(regs)
        fec == s[2]
        pre == s[3]
        enc == channel_spacing_loop(spacing, 0, 0)
        mdmcfg1 == enc[1] + fec + pre
    IN  /\ regs' = Written(Written(regs, MDMCFG1, mdmcfg1), MDMCFG0, enc[2])
        /\ last' = SyncCall("set_channel_spacing", <<spacing>>,
                            <<read_reg(MDMCFG1, regs[MDMCFG1]),
                              write_reg(MDMCFG1, mdmcfg1),
                              write_reg(MDMCFG0, enc[2])>>,
                            Returned("None", <<>>))
        /\ UNCHANGED <<manager, txFifo, modulation, handle, pc, call, busLog, ret, rxFrame>>

(* modem-config-4 *)

\* set_rx_bandwidth, lines 475-480: the bandwidth halved n times so far.
\* A bandwidth is a whole number of ten-thousandths of a kHz.
\* Yields the number of halvings done.
RECURSIVE rx_bandwidth_halve(_, _)
rx_bandwidth_halve(bandwidth, n) ==
    IF n < 3 /\ bandwidth > 1015625 * (2 ^ n)
    THEN rx_bandwidth_halve(bandwidth, n + 1)
    ELSE n

\* lines 481-486: the bandwidth, halved n times, divided by 1.25 k times so far.
\* Yields the number of divisions done.
RECURSIVE rx_bandwidth_divide(_, _, _)
rx_bandwidth_divide(bandwidth, n, k) ==
    IF k < 3 /\ bandwidth * (4 ^ k) > 581000 * (2 ^ n) * (5 ^ k)
    THEN rx_bandwidth_divide(bandwidth, n, k + 1)
    ELSE k

set_rx_bandwidth(bandwidth) ==
    LET s == split_mdmcfg4(regs)
        n == rx_bandwidth_halve(bandwidth, 0)
        s1 == 3 - n
        s2 == 3 - rx_bandwidth_divide(bandwidth, n, 0)
        rxbw == s1 * 64 + s2 * 16
    IN  FieldSetter("set_rx_bandwidth", bandwidth, MDMCFG4,
                    MDMCFG4, rxbw + s[2])

\* A data rate is the pair <<x, scale>>, scale 1 or 10: x / scale millionths
\* of a kBaud.
\* line 504: round((data_rate - 0.0247955) / 0.00009685) for the data rate
\* x / scale halved i times, that is (q + r / 2^i) / scale with
\* q == x \div 2^i and r == x % 2^i.  With f == 100 / scale the quotient is
\* (f*q - 2479550 + f*r / 2^i) / 9685.
data_rate_mantissa(x, scale, i) ==
    LET f == 100 \div scale
        q == x \div (2 ^ i)
        r == x % (2 ^ i)
        twice == 2 * (f * q - 2479550) + 9685 + ((2 * f * r) \div (2 ^ i))
        up == twice \div 19370
        tie == (2 * f * r) % (2 ^ i) = 0 /\ twice % 19370 = 0
    IN  IF tie /\ up % 2 = 1 THEN up - 1 ELSE up

\* set_data_rate, lines 500-508: i passes of the loop done, the data rate
\* halved i times.  Yields <<dara, mdmcfg3>>.
RECURSIVE data_rate_loop(_, _, _, _)
data_rate_loop(x, scale, i, dara) ==
    IF i = 20 THEN <<dara, 0>>
    ELSE LET q == x \div (2 ^ i)
             r == x % (2 ^ i)
         IN  IF q < 49492 * scale \/ (q = 49492 * scale /\ r = 0)
             THEN <<dara, data_rate_mantissa(x, scale, i)>>
             ELSE data_rate_loop(x, scale, i + 1, dara + 1)

set_data_rate(x, scale) ==
    LET s == split_mdmcfg4(regs)
        rxbw == s[1]
        enc == data_rate_loop(x, scale, 0, 0)
        mdmcfg4 == rxbw + enc[1]
    IN  /\ regs' = Written(Written(regs, MDMCFG4, mdmcfg4), MDMCFG3, enc[2])
        /\ last' = SyncCall("set_data_rate", <<x, scale>>,
                            <<read_reg(MDMCFG4, regs[MDMCFG4]),
                              write_reg(MDMCFG4, mdmcfg4),
                              write_reg(MDMCFG3, enc[2])>>,
                            Returned("None", <<>>))
        /\ UNCHANGED <<manager, txFifo, modulation, handle, pc, call, busLog, ret, rxFrame>>

\* data[4:7] = value on the LSB0 bit array: bits 6..4 replaced
SetBits64(byte, value) == byte - Bits(byte, 6, 4) * 16 + (value % 8) * 16

\* set_modulation, lines 262-265: FREND0 is written first, then MDMCFG2
set_modulation(m) ==
    LET data == SetBits64(regs[MDMCFG2], m)
        frend0 == IF m = ASK THEN 17 ELSE 16
    IN  /\ regs' = Written(Written(regs, FREND0, frend0), MDMCFG2, data)
        /\ last' = SyncCall("set_modulation", <<m>>,
                            <<read_reg(MDMCFG2, regs[MDMCFG2]),
                              write_reg(FREND0, frend0),
                              write_reg(MDMCFG2, data)>>,
                            Returned("None", <<>>))
        /\ UNCHANGED <<manager, txFifo, modulation, handle, pc, call, busLog, ret, rxFrame>>

(* output power *)

\* line 271
pa_table == <<18, 14, 29, 52, 96, 132, 200, 192>>

\* set_dbm, lines 271-278: the two slots are assigned one after the other, the
\* second assignment reads the table the first one left.  A level that is no
\* index of the table is an IndexError at lines 274 / 276.  The PA table is no
\* configuration register: the written table is in the record of the call.
set_dbm(dbm_level) ==
    LET first == IF modulation = FSK2
                 THEN [pa_table EXCEPT ![1] = 0]
                 ELSE [pa_table EXCEPT ![1] = pa_table[dbm_level + 1]]
        second == IF modulation = FSK2
                  THEN [first EXCEPT ![2] = first[dbm_level + 1]]
                  ELSE [first EXCEPT ![2] = 0]
    IN  /\ last' = IF dbm_level + 1 \in DOMAIN pa_table
                   THEN SyncCall("set_dbm", <<dbm_level>>,
                                 <<write_burst(PATABLE, second)>>,
                                 Returned("None", <<>>))
                   ELSE SyncCall("set_dbm", <<dbm_level>>, <<>>,
                                 Returned("IndexError", <<>>))
        /\ UNCHANGED <<manager, txFifo, regs, modulation, handle, pc, call, busLog, ret, rxFrame>>

----------------------------------------------------------------------------
(* class AsyncConfigManager (src/cc1101_dock/config.py).  A configuration   *)
(* is a dict: a function from its keys to their values, the empty dict     *)
(* being the empty function <<>>.  load_config and get have no suspension  *)
(* point of their own and run in one action; a callback that is a          *)
(* coroutine function is awaited and taken to finish without suspending.   *)

ConfigKeys == {"test_key"}
ConfigValues == {"test_value", "other_value"}

\* the documents a config file can hold: the mappings
Documents == UNION {[D -> ConfigValues] : D \in SUBSET ConfigKeys}

\* the file as open() and yaml.safe_load find it
Missing == [kind |-> "missing", data |-> <<>>]
Unparsable == [kind |-> "unparsable", data |-> <<>>]
Mapping(d) == [kind |-> "mapping", data |-> d]
ConfigFiles == {Missing, Unparsable} \cup {Mapping(d) : d \in Documents}

\* the on_reload argument of the constructor
Callbacks == {"None", "function", "coroutine function"}

\* the keys and defaults handed to get; "None" is the default left out
GetKeys == ConfigKeys \cup {"nonexistent_key"}
Defaults == {"None", "default"}

Has(d, key) == d # <<>> /\ key \in DOMAIN d

\* one invocation of the callback: its argument, the config of the manager
\* at that moment, and whether the call was awaited
Invocation(arg, cfg, cb) ==
    [arg |-> arg, config |-> cfg, awaited |-> cb = "coroutine function"]

\* lines 43-50: the exception that open() or yaml.safe_load raise on file f
load_config_raises(f) ==
    IF f.kind = "missing" THEN "FileNotFoundError"
    ELSE IF f.kind = "unparsable" THEN "ScannerError"
    ELSE ""

\* a load that never invokes the callback
load_config_run_silent(f, cfg, cb) ==
    [raised |-> load_config_raises(f),
     config |-> IF load_config_raises(f) = "" THEN f.data ELSE cfg,
     called |-> <<>>]

\* a load that falls back to the empty config when the file cannot be loaded
load_config_run_clears(f, cfg, cb) ==
    IF load_config_raises(f) # ""
    THEN [raised |-> load_config_raises(f), config |-> <<>>, called |-> <<>>]
    ELSE [raised |-> "", config |-> f.data,
          called |-> IF cb # "None" THEN <<Invocation(f.data, f.data, cb)>> ELSE <<>>]

\* load_config, lines 40-57, on file f with config cfg and callback cb: the
\* exception raised (if any), the config afterwards, the callback invocations
load_config_run(f, cfg, cb) ==
    IF load_config_raises(f) # ""
    THEN [raised |-> load_config_raises(f), config |-> cfg, called |-> <<>>]
    ELSE [raised |-> "", config |-> f.data,
          called |-> IF cb # "None" THEN <<Invocation(f.data, f.data, cb)>> ELSE <<>>]

NoLoad == [by |-> "none", read |-> Missing, pre |-> <<>>, raised |-> "", called |-> <<>>]

\* a run of load_config on behalf of `by`, and its record
load_config_by(by) ==
    LET run == load_config_run(configFile, config, on_reload)
    IN  /\ config' = run.config
        /\ lastLoad' = [by |-> by, read |-> configFile, pre |-> config,
                        raised |-> run.raised, called |-> run.called]

NoOp == [op |-> "none", arg |-> <<>>, outcome |-> "none", raised |-> "", result |-> "None"]

ReturnedFrom(op, arg, result) ==
    [op |-> op, arg |-> arg, outcome |-> "returned", raised |-> "", result |-> result]

RaisedFrom(op, arg, e) ==
    [op |-> op, arg |-> arg, outcome |-> "raised", raised |-> e, result |-> "None"]

AwaitingIn(op, arg) ==
    [op |-> op, arg |-> arg, outcome |-> "pending", raised |-> "", result |-> "None"]

\* the outcome of a call that ran load_config and then returns None
AfterLoad(op) ==
    IF lastLoad'.raised # "" THEN RaisedFrom(op, <<>>, lastLoad'.raised)
    ELSE ReturnedFrom(op, <<>>, "None")

\* the caller of the manager is not suspended in stop()
CallerReady == lastOp.outcome # "pending"

\* await manager.load_config()
load_config ==
    /\ CallerReady
    /\ load_config_by("caller")
    /\ lastOp' = AfterLoad("load_config")
    /\ UNCHANGED <<controller, configFile, on_reload, watch_task, changes>>

\* dict.get(key, default)
get_returns(cfg, key, default) == IF Has(cfg, key) THEN cfg[key] ELSE default

\* get, line 82
get(key, default) ==
    /\ CallerReady
    /\ lastOp' = ReturnedFrom("get", <<key, default>>, get_returns(config, key, default))
    /\ UNCHANGED <<controller, configFile, config, on_reload, watch_task, changes, lastLoad>>

(* The watch task: an asyncio.Task running _watch_config.  Its states are  *)
(* "pending" (created, not run yet), "watching" (suspended in awatch),     *)
(* "done" (returned), "cancelled" (cancelled before it ran) and "failed"   *)
(* (ended by the exception in `exception`); must_cancel is the request of  *)
(* Task.cancel() not yet delivered.                                        *)

Task(state, must_cancel, exception) ==
    [state |-> state, must_cancel |-> must_cancel, exception |-> exception]

NoTask == Task("None", FALSE, "")

TaskDone(task) == task.state \in {"done", "cancelled", "failed"}

\* start, lines 24-28.  The model keeps one watch task: start is called on
\* a manager whose watch task, if it has one, has ended.
start ==
    /\ CallerReady
    /\ watch_task = NoTask \/ TaskDone(watch_task)
    /\ load_config_by("start")
    /\ lastOp' = AfterLoad("start")
    /\ watch_task' = IF lastLoad'.raised = "" THEN Task("pending", FALSE, "")
                     ELSE watch_task
    /\ changes' = FALSE
    /\ UNCHANGED <<controller, configFile, on_reload>>

\* the file is created, rewritten or removed; awatch (line 62) reports the
\* change to a task that is watching
file_change(f) ==
    /\ f # configFile
    /\ configFile' = f
    /\ changes' = (watch_task.state = "watching")
    /\ UNCHANGED <<controller, config, on_reload, watch_task, lastLoad, lastOp>>

\* _watch_config, lines 61-62: the task runs up to its first wait in awatch
watch_config ==
    /\ watch_task.state = "pending"
    /\ ~watch_task.must_cancel
    /\ watch_task' = Task("watching", FALSE, "")
    /\ UNCHANGED <<controller, configFile, config, on_reload, changes, lastLoad, lastOp>>

\* _watch_config, lines 62-67: awatch reports a change of the config file and
\* the task reloads it; an exception of load_config ends the task, since only
\* CancelledError is caught (line 68)
watch_config_reload ==
    /\ watch_task.state = "watching"
    /\ ~watch_task.must_cancel
    /\ changes
    /\ load_config_by("watch")
    /\ watch_task' = IF lastLoad'.raised = "" THEN watch_task
                     ELSE Task("failed", FALSE, lastLoad'.raised)
    /\ changes' = FALSE
    /\ UNCHANGED <<controller, configFile, on_reload, lastOp>>

\* the cancellation reaches the task: a task that never ran is cancelled, a
\* task waiting in awatch catches CancelledError (line 68) and returns
watch_config_cancelled ==
    /\ watch_task.must_cancel
    /\ watch_task' = IF watch_task.state = "pending" THEN Task("cancelled", FALSE, "")
                     ELSE Task("done", FALSE, "")
    /\ changes' = FALSE
    /\ UNCHANGED <<controller, configFile, config, on_reload, lastLoad, lastOp>>

\* lines 34-38: what `await self._watch_task` gives stop() once the task has
\* ended: CancelledError is swallowed, any other exception of the task is not
stop_outcome(task) ==
    IF task.state = "failed" THEN RaisedFrom("stop", <<>>, task.exception)
    ELSE ReturnedFrom("stop", <<>>, "None")

\* stop, lines 30-38, up to its return or to its wait for the task
stop ==
    /\ CallerReady
    /\ IF watch_task = NoTask \/ TaskDone(watch_task)
       THEN /\ lastOp' = stop_outcome(watch_task)
            /\ UNCHANGED watch_task
       ELSE /\ lastOp' = AwaitingIn("stop", <<>>)
            /\ watch_task' = [watch_task EXCEPT !.must_cancel = TRUE]
    /\ UNCHANGED <<controller, configFile, config, on_reload, changes, lastLoad>>

\* stop resumed at line 35, the task having ended
stop_resume ==
    /\ lastOp = AwaitingIn("stop", <<>>)
    /\ TaskDone(watch_task)
    /\ lastOp' = stop_outcome(watch_task)
    /\ UNCHANGED <<controller, configFile, config, on_reload, watch_task, changes, lastLoad>>

\* AsyncConfigManager(config_file), lines 17-22
InitManager(cb) ==
    /\ config = <<>>
    /\ on_reload = cb
    /\ watch_task = NoTask
    /\ changes = FALSE
    /\ lastLoad = NoLoad
    /\ lastOp = NoOp

----------------------------------------------------------------------------
(* The transmit / receive protocol *)

ZeroRegs == [a \in ConfigAddrs |-> 0]

\* CC1101.__init__ and SPI.__init__: no session yet, modulation GFSK
\* a controller just constructed, and the tasks T that will call it
InitTasksOf(T) ==
    /\ modulation = 1
    /\ handle = "None"
    /\ pc = [t \in T |-> "idle"]
    /\ call = [t \in T |-> Called("none", NoArg)]
    /\ busLog = [t \in T |-> <<>>]
    /\ ret = [t \in T |-> Pending]
    /\ rxFrame = [t \in T |-> NoFrame]
    /\ txFifo = <<>>

InitTasks == InitTasksOf(Owner)

\* ... next to a configuration manager that is constructed and not used
InitController ==
    /\ InitTasks
    /\ configFile = Missing
    /\ InitManager("None")

\* The chip is configured to append the status bytes (PKTCTRL1 bit 2), or not
Init ==
    /\ \E app_st \in {0, 4} : regs = [ZeroRegs EXCEPT ![PKTCTRL1] = app_st]
    /\ InitController
    /\ last = NoCall(regs)

Next ==
    \/ \E kbaud \in Kbauds, v \in Versions : begin(kbaud, v)
    \/ \E t \in DOMAIN pc, payload \in Payloads, m \in MarcStates : send_data(t, payload, m)
    \/ \E t \in DOMAIN pc, m \in MarcStates : send_data_wake(t, m)
    \/ \E t \in DOMAIN pc, count \in RxCounts : receive_data(t, count)
    \/ \E t \in DOMAIN pc, count \in RxCounts : receive_data_wake(t, count)

Spec == Init /\ [][Next]_vars

\* asyncio resumes a coroutine whose sleep has elapsed
Fairness ==
    \A t \in Owner :
        /\ WF_vars(\E m \in MarcStates : send_data_wake(t, m))
        /\ WF_vars(\E count \in RxCounts : receive_data_wake(t, count))

FairSpec == Spec /\ Fairness

\* The protocol together with the two status getters
NextStatus ==
    \/ Next
    \/ \E rssi \in RssiValues : get_rssi(rssi)
    \/ \E lqi \in LqiValues : get_lqi(lqi)

SpecStatus == Init /\ [][NextStatus]_vars

----------------------------------------------------------------------------
(* The setters of one composite register, applied to every content of it *)

Byte == 0..255

\* arguments: the flags, and the field values with one value above the field
Field2Args == 0..4
Field3Args == 0..8

InitPktCtrl0 ==
    /\ \E p0 \in Byte, p1 \in Byte :
           regs = [ZeroRegs EXCEPT ![PKTCTRL0] = p0, ![PKTCTRL1] = p1]
    /\ InitController
    /\ last = NoCall(regs)

\* Every content of the two registers is an initial state, so one call from
\* each of them covers every content a sequence of calls can leave behind.
FirstCall == last.op = "none"

NextPktCtrl0 ==
    \/ \E enable \in BOOLEAN : FirstCall /\ set_white_data(enable)
    \/ \E value \in Field2Args : FirstCall /\ set_pkt_format(value)
    \/ \E enable \in BOOLEAN : FirstCall /\ set_crc(enable)
    \/ \E value \in Field2Args : FirstCall /\ set_length_config(value)

SpecPktCtrl0 == InitPktCtrl0 /\ [][NextPktCtrl0]_vars

InitPktCtrl1 ==
    /\ \E p1 \in Byte : regs = [ZeroRegs EXCEPT ![PKTCTRL1] = p1]
    /\ InitController
    /\ last = NoCall(regs)

NextPktCtrl1 ==
    \/ \E threshold \in Field3Args : set_pqt(threshold)
    \/ \E enable \in BOOLEAN : set_crc_af(enable)
    \/ \E enable \in BOOLEAN : set_append_status(enable)
    \/ \E value \in Field2Args : set_address_check(value)

SpecPktCtrl1 == InitPktCtrl1 /\ [][NextPktCtrl1]_vars

InitMdmCfg2 ==
    /\ \E m2 \in Byte : regs = [ZeroRegs EXCEPT ![MDMCFG2] = m2]
    /\ InitController
    /\ last = NoCall(regs)

NextMdmCfg2 ==
    \/ \E enable \in BOOLEAN : set_dc_filter(enable)
    \/ \E enable \in BOOLEAN : set_manchester(enable)
    \/ \E syncm \in Field3Args : set_sync_mode(syncm)
    \/ \E m \in Modulation : set_modulation(m)

SpecMdmCfg2 == InitMdmCfg2 /\ [][NextMdmCfg2]_vars

\* channel spacings in millionths of a kHz: the two ends of the documented
\* range (25.390625 and 405.456543 kHz), three spacings inside it, one below
\* and one above
Spacings == {10000000, 25390625, 50000000, 100000000, 200000000, 405456543, 500000000}

InitMdmCfg1 ==
    /\ \E m1 \in Byte : regs = [ZeroRegs EXCEPT ![MDMCFG1] = m1]
    /\ InitController
    /\ last = NoCall(regs)

NextMdmCfg1 ==
    \/ \E enable \in BOOLEAN : set_fec(enable)
    \/ \E value \in Field3Args : set_pre(value)
    \/ \E spacing \in Spacings : set_channel_spacing(spacing)

SpecMdmCfg1 == InitMdmCfg1 /\ [][NextMdmCfg1]_vars

\* data rates <<x, scale>>: the two ends of the documented range (0.0247955
\* and 1621.83 kBaud), 1.2, 38.4 and 250 kBaud inside it, 0.01 kBaud below and
\* 2000 kBaud above
DataRates ==
    {<<100000, 10>>, <<247955, 10>>, <<1200000, 1>>, <<38400000, 1>>,
     <<250000000, 1>>, <<1621830000, 1>>, <<2000000000, 1>>}

\* receive bandwidths in ten-thousandths of a kHz: 58, 101.5625, 203.125, 325
\* and 812.5 kHz
RxBandwidths == {580000, 1015625, 2031250, 3250000, 8125000}

InitMdmCfg4 ==
    /\ \E m4 \in Byte : regs = [ZeroRegs EXCEPT ![MDMCFG4] = m4]
    /\ InitController
    /\ last = NoCall(regs)

NextMdmCfg4 ==
    \/ \E dr \in DataRates : set_data_rate(dr[1], dr[2])
    \/ \E bandwidth \in RxBandwidths : set_rx_bandwidth(bandwidth)

SpecMdmCfg4 == InitMdmCfg4 /\ [][NextMdmCfg4]_vars

\* device addresses and packet lengths: the ends of the byte range, one
\* value inside it and one above it
Addresses == {0, 1, 255, 300}
PacketLengths == {0, 61, 255, 256}

\* register contents: no bit set, the even bits, the odd bits, every bit
Contents == {0, 85, 170, 255}

\* One setter call on a chip whose registers all hold the same byte, and the
\* getters
InitSetGet ==
    /\ \E b \in Contents : regs = [a \in ConfigAddrs |-> b]
    /\ InitController
    /\ last = NoCall(regs)

NextSetGet ==
    \/ \E threshold \in Field3Args : FirstCall /\ set_pqt(threshold)
    \/ \E enable \in BOOLEAN : FirstCall /\ set_crc_af(enable)
    \/ \E enable \in BOOLEAN : FirstCall /\ set_append_status(enable)
    \/ \E value \in Field2Args : FirstCall /\ set_address_check(value)
    \/ \E enable \in BOOLEAN : FirstCall /\ set_white_data(enable)
    \/ \E value \in Field2Args : FirstCall /\ set_pkt_format(value)
    \/ \E enable \in BOOLEAN : FirstCall /\ set_crc(enable)
    \/ \E value \in Field2Args : FirstCall /\ set_length_config(value)
    \/ \E enable \in BOOLEAN : FirstCall /\ set_dc_filter(enable)
    \/ \E enable \in BOOLEAN : FirstCall /\ set_manchester(enable)
    \/ \E syncm \in Field3Args : FirstCall /\ set_sync_mode(syncm)
    \/ \E enable \in BOOLEAN : FirstCall /\ set_fec(enable)
    \/ \E value \in Field3Args : FirstCall /\ set_pre(value)
    \/ \E m \in Modulation : FirstCall /\ set_modulation(m)
    \/ \E address \in Addresses : FirstCall /\ set_address(address)
    \/ \E length \in PacketLengths : FirstCall /\ set_packet_length(length)
    \/ get_pqt
    \/ get_crc_af
    \/ get_append_status
    \/ get_address_check
    \/ get_white_data
    \/ get_pkt_format
    \/ get_crc
    \/ get_length_config
    \/ get_dc_filter
    \/ get_manchester
    \/ get_sync_mode
    \/ get_fec
    \/ get_pre
    \/ get_modulation
    \/ get_address
    \/ get_packet_length

SpecSetGet == InitSetGet /\ [][NextSetGet]_vars

\* power levels: the indexes of the table, and one past its end
DbmLevels == 0..8

\* Modulation and output power, from the controller as constructed
InitPower ==
    /\ \E m2 \in Contents : regs = [ZeroRegs EXCEPT ![MDMCFG2] = m2]
    /\ InitController
    /\ last = NoCall(regs)

NextPower ==
    \/ \E m \in Modulation : set_modulation(m)
    \/ \E dbm_level \in DbmLevels : set_dbm(dbm_level)

SpecPower == InitPower /\ [][NextPower]_vars

\* set_dbm for each member of Modulation as the cached modulation
InitDbm ==
    /\ \E m2 \in Contents : regs = [ZeroRegs EXCEPT ![MDMCFG2] = m2]
    /\ modulation \in Modulation
    /\ handle = "None"
    /\ pc = [t \in Owner |-> "idle"]
    /\ call = [t \in Owner |-> Called("none", NoArg)]
    /\ busLog = [t \in Owner |-> <<>>]
    /\ ret = [t \in Owner |-> Pending]
    /\ rxFrame = [t \in Owner |-> NoFrame]
    /\ txFifo = <<>>
    /\ last = NoCall(regs)
    /\ configFile = Missing
    /\ InitManager("None")

SpecDbm == InitDbm /\ [][NextPower]_vars

\* carrier frequencies in kHz: the ends of the three supported bands
\* (300-348, 387-464 and 779-928 MHz) and 315, 433.92, 868.3 and 915 MHz
Frequencies ==
    {300000, 315000, 348000, 387000, 433920, 464000, 779000, 868300, 915000, 928000}

\* the chip status byte under the header of a register read: idle with an
\* empty RX FIFO, idle with bytes in the RX FIFO
IdleStatus == {0, 15}

InitFreq ==
    /\ \E b \in Contents : regs = [ZeroRegs EXCEPT ![FREQ2] = b, ![FREQ1] = b, ![FREQ0] = b]
    /\ InitController
    /\ last = NoCall(regs)

NextFreq ==
    \/ \E frequency \in Frequencies : set_base_frequency(frequency)
    \/ \E st \in IdleStatus : get_base_frequency(st)

SpecFreq == InitFreq /\ [][NextFreq]_vars

\* sync-word bytes and channel numbers, inside and above the byte range
SyncBytes == {0, 145, 256, 300}
Channels == {0, 7, 255, 256}

\* deviations in millionths of a kHz: the two ends of the documented range
\* (1.586914 and 380.859375 kHz), 5.157471 and 47.607422 kHz inside it, 1 kHz
\* below and 400 kHz above
Deviations == {1000000, 1586914, 5157471, 47607422, 380859375, 400000000}

\* One call of a setter that has a documented input range, on every content
\* of the registers
InitRange ==
    /\ \E b \in Byte : regs = [a \in ConfigAddrs |-> b]
    /\ InitController
    /\ last = NoCall(regs)

NextRange ==
    \/ \E sh \in SyncBytes, sl \in SyncBytes : FirstCall /\ set_sync_word(sh, sl)
    \/ \E address \in Addresses : FirstCall /\ set_address(address)
    \/ \E length \in PacketLengths : FirstCall /\ set_packet_length(length)
    \/ \E channel \in Channels : FirstCall /\ set_channel(channel)
    \/ \E spacing \in Spacings : FirstCall /\ set_channel_spacing(spacing)
    \/ \E dr \in DataRates : FirstCall /\ set_data_rate(dr[1], dr[2])
    \/ \E deviation \in Deviations : FirstCall /\ set_deviation(deviation)

SpecRange == InitRange /\ [][NextRange]_vars

----------------------------------------------------------------------------
(* Claims about the transmit / receive protocol *)

SendCalls == {t \in DOMAIN pc : call[t].op = "send_data"}
ReceiveCalls == {t \in DOMAIN pc : call[t].op = "receive_data"}

\* a poll of the machine state, as send_data issues it
IsMarcPoll(e) == e.op = "read_reg" /\ e.addr = 53
\* a poll of the RX byte count, as receive_data issues it
IsRxBytesPoll(e) == e.op = "read_reg" /\ e.addr = 59
IsStrobe(e, opcode) == e.op = "strobe" /\ e.out = <<opcode>>

\* the number that a list of bytes spells, most significant byte first
RECURSIVE BigEndian(_)
BigEndian(b) ==
    IF b = <<>> THEN 0
    ELSE 256 * BigEndian(SubSeq(b, 1, Len(b) - 1)) + b[Len(b)]

\* C1: in every send_data call the bus operations are, in this order, exactly
\* one burst write of the payload to the TX FIFO (header 0x3F | 0x40 = 0x7F,
\* then the payload bytes), one or more polls of the machine state, and exactly
\* one SFTX strobe; the strobe directly follows a poll that reported idle (1)
\* and is the last operation of the call.  (A bytes payload is written as it
\* is, an int payload as the bytes that spell it.)
C1_SendDataOrder ==
    \A t \in SendCalls :
        LET log == busLog[t]
            n == Len(log)
            polls == IF pc[t] = "idle" THEN 2..(n - 1) ELSE 2..n
        IN  /\ n >= 2
            /\ log[1].op = "write_burst"
            /\ log[1].out[1] = 127
            /\ call[t].arg.type = "bytes" => Tail(log[1].out) = call[t].arg.bytes
            /\ call[t].arg.type = "int" => BigEndian(Tail(log[1].out)) = call[t].arg.int
            /\ \A i \in polls : IsMarcPoll(log[i])
            /\ polls # {}
            /\ pc[t] \in {"idle", "send_data_sleep"}
            /\ pc[t] = "idle" =>
                   /\ IsStrobe(log[n], 59)
                   /\ log[n - 1].reply = <<1>>
                   /\ ret[t].kind = "None"
            /\ pc[t] = "send_data_sleep" => ret[t].kind = "pending"

\* C1 witness: a transmit of three bytes that polled a busy chip, then an idle
\* one, and has flushed the TX FIFO
C1_Witness ==
    \E t \in SendCalls :
        /\ pc[t] = "idle"
        /\ call[t].arg.bytes = <<170, 187, 170>>
        /\ Len(busLog[t]) = 4
        /\ busLog[t][2].reply = <<19>>
        /\ busLog[t][3].reply = <<1>>
        /\ IsStrobe(busLog[t][4], 59)

\* C2: the transmit poll loop is bounded: a send_data call that is waiting for
\* the idle state ends (with TxTimeout at the latest), also when the chip
\* never reports idle.
C2_SendDataTerminates ==
    \A t \in Owner : (pc[t] = "send_data_sleep") ~> (pc[t] = "idle")

\* C3: in every receive_data call the controller polls the RX byte count and
\* goes on only after a poll whose low 7 bits are non-zero; it then reads one
\* FIFO byte as the length L, burst-reads exactly L further bytes, strobes SFRX
\* once and only then returns a ReceivedPacket; before such a poll there is no
\* FIFO read and no strobe.
C3_ReceiveDataOrder ==
    \A t \in ReceiveCalls :
        LET log == busLog[t]
            n == Len(log)
            waiting == IF pc[t] = "idle" THEN 1..(n - 4) ELSE 1..n
        IN  /\ n >= 1
            /\ pc[t] \in {"idle", "receive_data_sleep"}
            /\ \A i \in waiting : IsRxBytesPoll(log[i]) /\ log[i].reply[1] % 128 = 0
            /\ pc[t] = "receive_data_sleep" => ret[t].kind = "pending"
            /\ (ret[t].kind = "ReceivedPacket") = (pc[t] = "idle")
            /\ pc[t] = "idle" =>
                   /\ n >= 4
                   /\ IsRxBytesPoll(log[n - 3]) /\ log[n - 3].reply[1] % 128 # 0
                   /\ log[n - 2].op = "read_reg" /\ log[n - 2].addr = 63
                   /\ log[n - 2].reply = <<Len(rxFrame[t].payload)>>
                   /\ log[n - 1].op = "read_burst" /\ log[n - 1].addr = 63
                   /\ Len(log[n - 1].out) = 1 + log[n - 2].reply[1]
                   /\ Len(log[n - 1].reply) = 1 + log[n - 2].reply[1]
                   /\ IsStrobe(log[n], 58)

\* C3 witness: a receive that polled an overflow flag alone (0x80), kept
\* polling, then saw a count and read a frame of three payload bytes
C3_Witness ==
    \E t \in ReceiveCalls :
        /\ pc[t] = "idle"
        /\ Len(busLog[t]) = 5
        /\ busLog[t][1].reply = <<128>>
        /\ busLog[t][2].reply = <<133>>
        /\ busLog[t][3].reply = <<3>>
        /\ ret[t].kind = "ReceivedPacket"

\* C4: a receive_data call that finds no data ends (with ReceiveTimeout once
\* the timeout has elapsed): it does not wait for ever.
C4_ReceiveDataTerminates ==
    \A t \in Owner : (pc[t] = "receive_data_sleep") ~> (pc[t] = "idle")

Received == {t \in ReceiveCalls : ret[t].kind = "ReceivedPacket"}

\* C5: with append-status disabled, the payload of the returned packet is
\* exactly the L bytes that follow the length prefix of the delivered frame.
C5_PayloadIsFrameBody ==
    \A t \in Received :
        ~rxFrame[t].appended => ReceivedPacket_data(ret[t].data) = rxFrame[t].payload

\* the decoding of the two status bytes (rssi doubled, as in ReceivedPacket_rssi2)
RssiTwice(raw) == IF raw >= 128 THEN raw - 256 - 148 ELSE raw - 148

\* C6: with append-status enabled the frame is [length][payload][rssi][status]:
\* the packet's RSSI is decoded from the byte after the payload, its LQI and
\* CRC flag from the last byte, its payload is the length bytes in between.
C6_StatusFromTrailer ==
    \A t \in Received :
        rxFrame[t].appended =>
            /\ ReceivedPacket_rssi2(ret[t].data) = Value(RssiTwice(rxFrame[t].rssi))
            /\ ReceivedPacket_lqi(ret[t].data) = Value(rxFrame[t].status % 128)
            /\ ReceivedPacket_valid(ret[t].data) = Value(rxFrame[t].status \div 128)
            /\ ReceivedPacket_data(ret[t].data) = rxFrame[t].payload

HasValue(x) == x.raised = ""

\* C7: with append-status disabled the packet carries no RSSI, LQI or
\* CRC-valid value: none is derived from other bytes.
C7_NoStatusWithoutAppend ==
    \A t \in Received :
        ~rxFrame[t].appended =>
            /\ ~HasValue(ReceivedPacket_rssi2(ret[t].data))
            /\ ~HasValue(ReceivedPacket_lqi(ret[t].data))
            /\ ~HasValue(ReceivedPacket_valid(ret[t].data))

\* C8: begin opens the bus session, then reads the silicon version; a version
\* of zero makes the call fail with DeviceNotResponding, any other version
\* makes it succeed.
C8_BeginChecksVersion ==
    last.op = "begin" =>
        /\ Len(last.log) = 2
        /\ last.log[1].op = "begin"
        /\ last.log[2].op = "read_status_reg" /\ last.log[2].addr = 49
        /\ handle = "open"
        /\ IF last.log[2].reply = <<0>>
           THEN last.ret.kind = "DeviceNotResponding"
           ELSE last.ret.kind \in {"bool", "None"} /\ last.ret.data # <<0>>

----------------------------------------------------------------------------
(* Claims about the composite registers *)

\* C9: each of set_white_data, set_pkt_format, set_crc and set_length_config,
\* given a valid argument, changes only its own field of PKTCTRL0 (whitening
\* bit 6, packet format bits 5:4, CRC enable bit 2, length mode bits 1:0): the
\* other three fields keep the value they had before the call, whatever
\* PKTCTRL0 and PKTCTRL1 held.
C9_PktCtrl0OtherFieldsKept ==
    (/\ last.op \in {"set_white_data", "set_pkt_format", "set_crc", "set_length_config"}
     /\ last.arg[1] <= 3) =>
        LET before == last.pre[PKTCTRL0]
            after == regs[PKTCTRL0]
        IN  /\ last.op # "set_white_data" => Bits(after, 6, 6) = Bits(before, 6, 6)
            /\ last.op # "set_pkt_format" => Bits(after, 5, 4) = Bits(before, 5, 4)
            /\ last.op # "set_crc" => Bits(after, 2, 2) = Bits(before, 2, 2)
            /\ last.op # "set_length_config" => Bits(after, 1, 0) = Bits(before, 1, 0)

\* C10: each of set_dc_filter, set_manchester, set_sync_mode and
\* set_modulation, given a valid argument, changes only its own field of
\* MDMCFG2 (DC filter bit 7, modulation bits 6:4, Manchester bit 3, sync mode
\* bits 2:0): every other field is unchanged, for every content 0..255.
C10_MdmCfg2OtherFieldsKept ==
    (/\ last.op \in {"set_dc_filter", "set_manchester", "set_sync_mode", "set_modulation"}
     /\ last.arg[1] <= 7) =>
        LET before == last.pre[MDMCFG2]
            after == regs[MDMCFG2]
        IN  /\ last.op # "set_dc_filter" => Bits(after, 7, 7) = Bits(before, 7, 7)
            /\ last.op # "set_modulation" => Bits(after, 6, 4) = Bits(before, 6, 4)
            /\ last.op # "set_manchester" => Bits(after, 3, 3) = Bits(before, 3, 3)
            /\ last.op # "set_sync_mode" => Bits(after, 2, 0) = Bits(before, 2, 0)

\* whether the last call was given an argument inside its documented range
ValidSpacing(spacing) == spacing >= 25390625 /\ spacing <= 405456543

\* C11: each of set_fec, set_pre and set_channel_spacing, given a valid
\* argument, changes only its own field of MDMCFG1 (FEC enable bit 7, preamble
\* length bits 6:4, channel-spacing exponent bits 1:0): the other two fields
\* are unchanged after the call, for every content 0..255 of the register.
C11_MdmCfg1OtherFieldsKept ==
    (\/ last.op = "set_fec"
     \/ last.op = "set_pre" /\ last.arg[1] <= 7
     \/ last.op = "set_channel_spacing" /\ ValidSpacing(last.arg[1])) =>
        LET before == last.pre[MDMCFG1]
            after == regs[MDMCFG1]
        IN  /\ last.op # "set_fec" => Bits(after, 7, 7) = Bits(before, 7, 7)
            /\ last.op # "set_pre" => Bits(after, 6, 4) = Bits(before, 6, 4)
            /\ last.op # "set_channel_spacing" => Bits(after, 1, 0) = Bits(before, 1, 0)

\* the documented range of the data rate, 0.0247955 to 1621.83 kBaud
ValidDataRate(x, scale) ==
    IF scale = 10 THEN x >= 247955 ELSE x >= 24796 /\ x <= 1621830000

\* C12: set_data_rate, for every data rate in the documented range, leaves the
\* receive-bandwidth field of MDMCFG4 (upper 4 bits) unchanged, and
\* set_rx_bandwidth leaves the data-rate exponent (lower 4 bits) unchanged,
\* for every content 0..255 of the register.
C12_MdmCfg4OtherFieldKept ==
    LET before == last.pre[MDMCFG4]
        after == regs[MDMCFG4]
    IN  /\ (last.op = "set_data_rate" /\ ValidDataRate(last.arg[1], last.arg[2])) =>
               Bits(after, 7, 4) = Bits(before, 7, 4)
        /\ last.op = "set_rx_bandwidth" => Bits(after, 3, 0) = Bits(before, 3, 0)

\* the last bus operation of the last synchronous call is a write of PKTCTRL1
EndsWithWriteOfPktCtrl1 ==
    /\ last.log # <<>>
    /\ last.log[Len(last.log)].op = "write_reg"
    /\ last.log[Len(last.log)].addr = 7

\* C13: each of set_pqt, set_crc_af, set_append_status and set_address_check,
\* given a valid argument, completes with a write to PKTCTRL1 that changes only
\* its own field (PQT bits 7:5, CRC auto-flush bit 3, append-status bit 2,
\* address check bits 1:0): every other bit of PKTCTRL1 is unchanged after the
\* call, for every content 0..255 of the register.
C13_PktCtrl1OtherBitsKept ==
    LET before == last.pre[PKTCTRL1]
        after == regs[PKTCTRL1]
    IN  /\ (last.op = "set_pqt" /\ last.arg[1] <= 7) =>
               /\ last.ret.kind = "None"
               /\ EndsWithWriteOfPktCtrl1
               /\ Bits(after, 4, 0) = Bits(before, 4, 0)
        /\ last.op = "set_crc_af" =>
               /\ last.ret.kind = "None"
               /\ EndsWithWriteOfPktCtrl1
               /\ Bits(after, 7, 4) = Bits(before, 7, 4)
               /\ Bits(after, 2, 0) = Bits(before, 2, 0)
        /\ last.op = "set_append_status" =>
               /\ last.ret.kind = "None"
               /\ EndsWithWriteOfPktCtrl1
               /\ Bits(after, 7, 3) = Bits(before, 7, 3)
               /\ Bits(after, 1, 0) = Bits(before, 1, 0)
        /\ (last.op = "set_address_check" /\ last.arg[1] <= 3) =>
               /\ last.ret.kind = "None"
               /\ EndsWithWriteOfPktCtrl1
               /\ Bits(after, 7, 2) = Bits(before, 7, 2)

\* the last call was setter op with an argument of at most max
SetWithin(op, max) == last.op = op /\ last.arg[1] <= max

\* C14: every getter is the inverse of its setter: right after set_X(v), with
\* v within the width of the field, get_X() returns v (a flag as 1 or 0), for
\* each of PQT, CRC auto-flush, append-status, address check, whitening,
\* packet format, CRC enable, length mode, DC filter, Manchester, sync mode,
\* FEC, preamble length, modulation, device address and packet length.
C14_GetterInvertsSetter ==
    /\ SetWithin("set_pqt", 7) => get_pqt_returns(regs).data = last.arg
    /\ SetWithin("set_crc_af", 1) => get_crc_af_returns(regs).data = last.arg
    /\ SetWithin("set_append_status", 1) => get_append_status_returns(regs).data = last.arg
    /\ SetWithin("set_address_check", 3) => get_address_check_returns(regs).data = last.arg
    /\ SetWithin("set_white_data", 1) => get_white_data_returns(regs).data = last.arg
    /\ SetWithin("set_pkt_format", 3) => get_pkt_format_returns(regs).data = last.arg
    /\ SetWithin("set_crc", 1) => get_crc_returns(regs).data = last.arg
    /\ SetWithin("set_length_config", 3) => get_length_config_returns(regs).data = last.arg
    /\ SetWithin("set_dc_filter", 1) => get_dc_filter_returns(regs).data = last.arg
    /\ SetWithin("set_manchester", 1) => get_manchester_returns(regs).data = last.arg
    /\ SetWithin("set_sync_mode", 7) => get_sync_mode_returns(regs).data = last.arg
    /\ SetWithin("set_fec", 1) => get_fec_returns(regs).data = last.arg
    /\ SetWithin("set_pre", 7) => get_pre_returns(regs).data = last.arg
    /\ SetWithin("set_modulation", 7) => get_modulation_returns(regs).data = last.arg
    /\ SetWithin("set_address", 255) => get_address_returns(regs).data = last.arg
    /\ SetWithin("set_packet_length", 255) => get_packet_length_returns(regs).data = last.arg

ValidDeviation(deviation) == deviation >= 1586914 /\ deviation <= 380859375

\* whether the last call was given an input outside its documented range
OutOfRangeCall ==
    \/ last.op = "set_sync_word" /\ (last.arg[1] > 255 \/ last.arg[2] > 255)
    \/ last.op \in {"set_address", "set_packet_length", "set_channel"} /\ last.arg[1] > 255
    \/ last.op = "set_channel_spacing" /\ ~ValidSpacing(last.arg[1])
    \/ last.op = "set_data_rate" /\ ~ValidDataRate(last.arg[1], last.arg[2])
    \/ last.op = "set_deviation" /\ ~ValidDeviation(last.arg[1])

\* C15: a setter given an input outside its documented range (set_sync_word,
\* set_address, set_packet_length or set_channel above 255, set_channel_spacing
\* outside 25.390625..405.456543 kHz, set_data_rate outside
\* 0.0247955..1621.83 kBaud, set_deviation outside 1.586914..380.859375 kHz)
\* fails with ParameterOutOfRange and writes no register: every chip register
\* is the same after the call as before it.
C15_OutOfRangeRejected ==
    OutOfRangeCall =>
        /\ last.ret.kind = "ParameterOutOfRange"
        /\ \A i \in 1..Len(last.log) : last.log[i].op # "write_reg"
        /\ regs = last.pre

\* whether the last call was setter op with a value above max
SetAbove(op, max) == last.op = op /\ last.arg[1] > max

\* the last call, if it was setter op, left the bits of register addr above
\* bit hi and below bit lo as they were
OutsideKept(op, addr, hi, lo) ==
    last.op = op =>
        /\ regs[addr] \div (2 ^ (hi + 1)) = last.pre[addr] \div (2 ^ (hi + 1))
        /\ regs[addr] % (2 ^ lo) = last.pre[addr] % (2 ^ lo)

\* C16: a field setter given a value wider than its field (set_pqt above 7,
\* set_address_check, set_pkt_format or set_length_config above 3,
\* set_sync_mode or set_pre above 7) fails with FieldOutOfRange, and for no
\* input does one of these setters change a bit outside its own field: a
\* too-wide value is never wrapped or spilled into a neighbouring field.
C16_TooWideRejected ==
    /\ (\/ SetAbove("set_pqt", 7)
        \/ SetAbove("set_address_check", 3)
        \/ SetAbove("set_pkt_format", 3)
        \/ SetAbove("set_length_config", 3)
        \/ SetAbove("set_sync_mode", 7)
        \/ SetAbove("set_pre", 7)) => last.ret.kind = "FieldOutOfRange"
    /\ OutsideKept("set_pqt", 7, 7, 5)
    /\ OutsideKept("set_address_check", 7, 1, 0)
    /\ OutsideKept("set_pkt_format", 8, 5, 4)
    /\ OutsideKept("set_length_config", 8, 1, 0)
    /\ OutsideKept("set_sync_mode", 18, 2, 0)
    /\ OutsideKept("set_pre", 19, 6, 4)

----------------------------------------------------------------------------
(* Claims about the output power *)

\* the last call was set_dbm with a level in 0..7
SetDbmCall == last.op = "set_dbm" /\ last.arg[1] \in 0..7

\* the first two slots of the table that the last call wrote
Slots == IF last.log = <<>> THEN <<>> ELSE SubSeq(last.log[1].arg, 1, 2)

\* set_modulation writes FREND0 (0x10 or 0x11) and the modulation into bits
\* 6:4 of MDMCFG2; nothing else writes FREND0
ModulationWasSet == last.pre[34] \in {16, 17}
ModulationSet == Bits(last.pre[18], 6, 4)

\* C17: after any sequence of set_modulation and set_dbm calls, the table
\* written by the latest set_dbm(i), i in 0..7, matches the modulation most
\* recently set with set_modulation: for ASK slot 0 is non-zero and slot 1 is
\* zero, for FSK2, GFSK, FSK4 and MSK slot 1 is non-zero and slot 0 is zero.
C17_PowerTableFollowsModulation ==
    (SetDbmCall /\ ModulationWasSet) =>
        /\ Len(Slots) = 2
        /\ IF ModulationSet = 3
           THEN Slots[1] # 0 /\ Slots[2] = 0
           ELSE Slots[2] # 0 /\ Slots[1] = 0

----------------------------------------------------------------------------
(* Claims about the framing on the bus *)

\* the bus operations of the calls on record
BusOps ==
    {last.log[i] : i \in 1..Len(last.log)}
        \cup UNION {{busLog[t][i] : i \in 1..Len(busLog[t])} : t \in DOMAIN busLog}

\* C19: a single-register write of value v (0..255) to address a is sent on
\* the bus as the two bytes [a, v]: the address byte unmodified, then the
\* value byte.
C19_WriteRegFraming ==
    \A e \in BusOps :
        (e.op = "write_reg" /\ e.arg[1] \in 0..255) => e.out = <<e.addr, e.arg[1]>>

\* a read of one of the status registers 0x30..0x3D, by either read method
IsStatusRead(e) == e.op \in {"read_reg", "read_status_reg"} /\ e.addr \in 48..61

\* C20: every read of a status register that the controller issues (version
\* in begin, machine state in send_data, RX byte count in receive_data, RSSI
\* and LQI in get_rssi / get_lqi) is framed with the burst-read flag: its
\* header byte is address | 0xC0, never address | 0x80.
C20_StatusReadFraming ==
    \A e \in BusOps : IsStatusRead(e) => e.out[1] = e.addr + 192

----------------------------------------------------------------------------
(* Claims about the numeric encodings *)

\* whether word * 1625 / 4096 kHz, the frequency that a register word
\* stands for, is within one step (1625 / 4096 kHz) of frequency
WithinOneStep(word, frequency) ==
    LET q == frequency \div 1625
        r == frequency % 1625
        d == word - 4096 * q
    IN  /\ d >= -1 /\ d <= 4097
        /\ 1625 * d - 4096 * r <= 1625
        /\ 4096 * r - 1625 * d <= 1625

\* C21: for every carrier frequency f of the supported range,
\* set_base_frequency(f) writes a 24-bit value as 3 big-endian bytes to the
\* frequency registers (one burst at FREQ2), and get_base_frequency()
\* afterwards returns a value within one quantization step of f.
C21_BaseFrequencyRoundTrip ==
    last.op = "set_base_frequency" =>
        /\ Len(last.log) = 1
        /\ last.log[1].op = "write_burst" /\ last.log[1].addr = 13
        /\ Len(last.log[1].arg) = 3
        /\ \A i \in 1..3 : last.log[1].arg[i] \in 0..255
        /\ WithinOneStep(BigEndian(last.log[1].arg), last.arg[1])
        /\ \A st \in IdleStatus :
               WithinOneStep(get_base_frequency_returns(regs, st).data[1], last.arg[1])

\* <<quotient, remainder>> of x * 2^k divided by d, for k >= 0 and d > 0,
\* doubling one bit at a time
RECURSIVE ScaledQuotient(_, _, _)
ScaledQuotient(x, k, d) ==
    IF k = 0 THEN <<x \div d, x % d>>
    ELSE LET h == ScaledQuotient(x, k - 1, d)
         IN  <<2 * h[1] + (2 * h[2]) \div d, (2 * h[2]) % d>>

\* The data rate <<x, scale>> in steps of oscillator / 2^28 * 2^e, that is
\* x * 2^(18 - e) / (25390625 * scale): <<whole steps, remainder>>
DataRateSteps(x, scale, e) == ScaledQuotient(x, 18 - e, 25390625 * scale)

\* C22: for every data rate r of the valid range set_data_rate(r) writes an
\* exponent e in 0..15 and a mantissa m in 0..255 such that
\* (256 + m) * 2^e * oscillator / 2^28 is within one step 2^e * oscillator / 2^28
\* of r, and e is the smallest such exponent: e is 0, or r is above
\* 511 * 2^(e-1) * oscillator / 2^28, the largest rate of the exponent below.
C22_DataRateEncoding ==
    (last.op = "set_data_rate" /\ ValidDataRate(last.arg[1], last.arg[2])) =>
        LET e == last.log[2].arg[1] - 16 * Bits(last.pre[16], 7, 4)
            m == last.log[3].arg[1]
            x == last.arg[1]
            scale == last.arg[2]
        IN  /\ e \in 0..15
            /\ m \in 0..255
            /\ LET s == DataRateSteps(x, scale, e)
               IN  /\ s[1] >= 255 + m
                   /\ (IF s[2] = 0 THEN s[1] ELSE s[1] + 1) <= 257 + m
            /\ e > 0 =>
                   LET below == DataRateSteps(x, scale, e - 1)
                   IN  below[1] >= 512 \/ (below[1] = 511 /\ below[2] > 0)

\* the register values of the layout: exponent in bits 6:4, mantissa in bits
\* 2:0, bits 7 and 3 clear
DeviationLayout == {c \in 0..127 : Bits(c, 3, 3) = 0}

\* the deviation that register value c stands for, in units of oscillator / 2^17
DeviationOf(c) == (8 + Bits(c, 2, 0)) * (2 ^ Bits(c, 6, 4))

\* whether the deviation of c meets or exceeds d millionths of a kHz:
\* oscillator / 2^17 is 25390625 / 128 millionths of a kHz
DeviationMeets(c, d) ==
    d <= ((8 + Bits(c, 2, 0)) * 25390625) \div (2 ^ (7 - Bits(c, 6, 4)))

\* C23: for every target deviation d of the valid range set_deviation(d)
\* writes a register value that fits the 3-bit-mantissa / 3-bit-exponent
\* layout and whose decoded deviation (oscillator / 2^17) * (8 + mantissa) *
\* 2^exponent is the first entry of the increasing deviation sequence that
\* meets or exceeds d (so that the encoding is non-decreasing in d).
C23_DeviationEncoding ==
    (last.op = "set_deviation" /\ ValidDeviation(last.arg[1])) =>
        LET c == last.log[1].arg[1]
            d == last.arg[1]
        IN  /\ c \in DeviationLayout
            /\ DeviationMeets(c, d)
            /\ \A c2 \in DeviationLayout :
                   DeviationMeets(c2, d) => DeviationOf(c) <= DeviationOf(c2)

\* the polls of the status registers (MARCSTATE in send_data, RXBYTES in
\* receive_data) in a bus log
StatusPolls(log) ==
    Cardinality({i \in 1..Len(log) :
                    IsPoll(log[i], MARCSTATE) \/ IsPoll(log[i], RXBYTES)})

\* the task is suspended in the sleep of a poll loop
Suspended(t) == pc[t] \in {"send_data_sleep", "receive_data_sleep"}

\* the call of the task has polled last, and nothing since
PolledLast(t) ==
    /\ busLog[t] # <<>>
    /\ \/ IsPoll(busLog[t][Len(busLog[t])], MARCSTATE)
       \/ IsPoll(busLog[t][Len(busLog[t])], RXBYTES)

\* C24: both poll loops are cooperative.  Every step of a task is the run of
\* its coroutine between two suspension points (or from the call to the first
\* one, or from the last one to the return): such a run of send_data or
\* receive_data polls the status register at most once, and a run that ends
\* with a poll ends in the sleep, where other tasks can run.  So no call
\* performs two polls back to back without yielding.
C24_PollLoopsYield ==
    [][\A t \in DOMAIN pc :
          \/ busLog'[t] = busLog[t]
          \/ /\ StatusPolls(busLog'[t])
                    <= (IF Suspended(t) THEN StatusPolls(busLog[t]) ELSE 0) + 1
             /\ PolledLast(t)' => Suspended(t)']_vars

\* a call that has polled twice, and is suspended after its second poll
C24_Witness == \E t \in DOMAIN pc : Suspended(t) /\ StatusPolls(busLog[t]) >= 2

----------------------------------------------------------------------------
(* The configuration manager: loads and lookups *)

\* a manager constructed on any file, with any kind of callback
InitConfig ==
    /\ regs = ZeroRegs
    /\ InitTasks
    /\ last = NoCall(regs)
    /\ configFile \in ConfigFiles
    /\ \E cb \in Callbacks : InitManager(cb)

NextConfig ==
    \/ load_config
    \/ \E key \in GetKeys, default \in Defaults : get(key, default)
    \/ \E f \in ConfigFiles : file_change(f)

SpecConfig == InitConfig /\ [][NextConfig]_vars

(* The configuration manager: the watch task *)

NextWatch ==
    \/ start
    \/ stop
    \/ stop_resume
    \/ watch_config
    \/ watch_config_reload
    \/ watch_config_cancelled
    \/ \E f \in ConfigFiles : file_change(f)

SpecWatch == InitConfig /\ [][NextWatch]_vars

C26_WatchTaskLifecycle ==
    /\ (lastOp.op = "none" /\ lastLoad.by = "none") =>
           config = <<>> /\ watch_task = NoTask
    /\ (lastOp.op = "start" /\ lastOp.outcome = "returned" /\ lastLoad.by = "start") =>
           /\ config = lastLoad.read.data
           /\ watch_task # NoTask
           /\ ~TaskDone(watch_task)
    /\ (lastOp.op = "stop" /\ lastOp.outcome # "pending") =>
           /\ lastOp.outcome = "returned"
           /\ watch_task # NoTask => TaskDone(watch_task)

\* C27: load_config on a missing file raises FileNotFoundError and on an
\* unparsable file the scanner error; the error reaches the caller, config
\* keeps the value it had before the call, and the callback is not invoked.
C27_FailedLoadKeepsConfig ==
    (lastLoad.by = "caller" /\ lastLoad.read.kind # "mapping") =>
        /\ lastLoad.raised = IF lastLoad.read.kind = "missing"
                             THEN "FileNotFoundError" ELSE "ScannerError"
        /\ lastOp.op = "load_config" =>
               lastOp.outcome = "raised" /\ lastOp.raised = lastLoad.raised
        /\ config = lastLoad.pre
        /\ lastLoad.called = <<>>

\* a load that failed on a manager holding a loaded config and a callback
C27_Witness ==
    /\ lastLoad.by = "caller"
    /\ lastLoad.raised = "ScannerError"
    /\ lastLoad.pre # <<>>
    /\ on_reload # "None"
    /\ lastOp.op = "load_config"

----------------------------------------------------------------------------
(* The field-decomposition routines, called on their own *)

\* the registers that hold several fields
CompositeAddrs == {PKTCTRL1, PKTCTRL0, MDMCFG1, MDMCFG2, MDMCFG4}

\* one call of a decomposition routine: it reads register `reads` and
\* returns the tuple `parts`
split_register(op, reads, parts) ==
    /\ last' = SyncCall(op, <<>>, <<read_reg(reads, regs[reads])>>,
                        Returned("tuple", parts))
    /\ UNCHANGED <<manager, txFifo, regs, modulation, handle, pc, call, busLog, ret, rxFrame>>

call_split_pktctrl1 == split_register("_split_pktctrl1", PKTCTRL1, split_pktctrl1(regs))
call_split_pktctrl0 ==
    split_register("_split_pktctrl0", split_pktctrl0_reads, split_pktctrl0(regs))
call_split_mdmcfg1 == split_register("_split_mdmcfg1", MDMCFG1, split_mdmcfg1(regs))
call_split_mdmcfg2 == split_register("_split_mdmcfg2", MDMCFG2, split_mdmcfg2(regs))
call_split_mdmcfg4 == split_register("_split_mdmcfg4", MDMCFG4, split_mdmcfg4(regs))

\* one composite register holds any byte, the others are clear
InitSplit ==
    /\ \E a \in CompositeAddrs, v \in Byte : regs = [ZeroRegs EXCEPT ![a] = v]
    /\ InitController
    /\ last = NoCall(regs)

NextSplit ==
    \/ call_split_pktctrl1
    \/ call_split_pktctrl0
    \/ call_split_mdmcfg1
    \/ call_split_mdmcfg2
    \/ call_split_mdmcfg4

SpecSplit == InitSplit /\ [][NextSplit]_vars

\* the register each routine is named after, and the bit ranges <<high, low>>
\* of the parts it returns, in the order of the returned tuple
SplitNamedAfter ==
    [_split_pktctrl1 |-> PKTCTRL1, _split_pktctrl0 |-> PKTCTRL0,
     _split_mdmcfg1 |-> MDMCFG1, _split_mdmcfg2 |-> MDMCFG2,
     _split_mdmcfg4 |-> MDMCFG4]

SplitRanges ==
    [_split_pktctrl1 |-> << <<7, 5>>, <<4, 3>>, <<2, 2>>, <<1, 0>> >>,
     _split_pktctrl0 |-> << <<7, 6>>, <<5, 4>>, <<3, 2>>, <<1, 0>> >>,
     _split_mdmcfg1 |-> << <<7, 7>>, <<6, 4>>, <<3, 0>> >>,
     _split_mdmcfg2 |-> << <<7, 7>>, <<6, 4>>, <<3, 3>>, <<2, 0>> >>,
     _split_mdmcfg4 |-> << <<7, 4>>, <<3, 0>> >>]

\* the ranges follow one another from bit 7 down to bit 0
SpanAllBits(ranges) ==
    /\ ranges[1][1] = 7
    /\ ranges[Len(ranges)][2] = 0
    /\ \A i \in 1..Len(ranges) : ranges[i][1] >= ranges[i][2]
    /\ \A i \in 1..(Len(ranges) - 1) : ranges[i][2] = ranges[i + 1][1] + 1

\* p is a non-negative value made of bits high..low only
InBitRange(p, range) ==
    /\ p >= 0
    /\ p < 2 ^ (range[1] + 1)
    /\ p % (2 ^ range[2]) = 0

RECURSIVE SumOf(_)
SumOf(parts) == IF parts = <<>> THEN 0 ELSE parts[1] + SumOf(Tail(parts))

IsSplitCall == last.op \in DOMAIN SplitNamedAfter

\* C28: for every register value 0..255 each field-decomposition routine
\* reads the register it is named after and returns parts that are
\* non-negative, lie in pairwise non-overlapping bit ranges that together
\* span all 8 bits, and sum to the value read.
C28_SplitPartition ==
    IsSplitCall =>
        LET named == SplitNamedAfter[last.op]
            ranges == SplitRanges[last.op]
            parts == last.ret.data
        IN  /\ last.log = <<read_reg(named, last.pre[named])>>
            /\ SpanAllBits(ranges)
            /\ Len(parts) = Len(ranges)
            /\ \A i \in 1..Len(parts) : InBitRange(parts[i], ranges[i])
            /\ SumOf(parts) = last.log[1].reply[1]

----------------------------------------------------------------------------
(* Two tasks transmit through one controller *)

\* tasks of one event loop that share the controller
Sharers == {1, 2}

OverlapPayloads == [type : {"bytes"}, bytes : [1..1 -> DataBytes], int : {0}]

InitOverlap ==
    /\ regs = ZeroRegs
    /\ InitTasksOf(Sharers)
    /\ last = NoCall(regs)
    /\ configFile = Missing
    /\ InitManager("None")

NextOverlap ==
    \/ \E t \in DOMAIN pc, payload \in OverlapPayloads, m \in MarcStates :
           send_data(t, payload, m)
    \/ \E t \in DOMAIN pc, m \in MarcStates : send_data_wake(t, m)

SpecOverlap == InitOverlap /\ [][NextOverlap]_vars

\* task t is inside send_data: it has written the FIFO and has not yet
\* observed the idle state
Transmitting(t) == pc[t] = "send_data_sleep"

\* C30: the controller does not serialise overlapping transmits.  While one
\* call of send_data is suspended in its poll loop, another task can start
\* send_data and write to the TX FIFO; and while two calls are suspended,
\* either can be the next to observe the idle state and strobe SFTX, before
\* the other has observed it.
C30_TransmitsNotSerialised ==
    \A a \in DOMAIN pc, b \in DOMAIN pc :
        (a # b /\ Transmitting(a)) =>
            /\ pc[b] = "idle" =>
                   ENABLED (\E payload \in OverlapPayloads, m \in MarcStates :
                               send_data(b, payload, m))
            /\ Transmitting(b) => ENABLED send_data_wake(a, 1)

\* one call's SFTX has been issued between another call's FIFO write and
\* that call's observation of the idle state: task b is still in its poll
\* loop, and what it wrote is no longer in the FIFO, flushed by the strobe
\* that ended the call of task a
C30_Witness ==
    \E a \in DOMAIN pc, b \in DOMAIN pc :
        /\ a # b
        /\ Transmitting(b)
        /\ \A i \in 1..Len(txFifo) : txFifo[i].by # b
        /\ pc[a] = "idle"
        /\ call[a].op = "send_data"
        /\ busLog[a][Len(busLog[a])] = strobe(SFTX)

----------------------------------------------------------------------------
(* Tasks that share one controller: transmits, receives and field setters *)

SharedPayloads == [type : {"bytes"}, bytes : {<<170>>}, int : {0}]
\* the chip is busy, or idle
SharedMarcStates == {13, 1}
\* the RX FIFO stays empty: a call of receive_data stays in its loop
SharedRxCounts == {0}
\* valid arguments of the setters of multi-bit fields
SharedField2Args == {0, 3}
SharedField3Args == {0, 7}
SharedModulations == {FSK2, ASK}
SharedSpacings == {25390625, 200000000}
SharedRxBandwidths == {580000, 3250000}
SharedDataRates == {<<1200000, 1>>, <<250000000, 1>>}

\* the register each field setter reads and writes back, by the field it sets
SetterRegister ==
    [set_pqt |-> PKTCTRL1, set_crc_af |-> PKTCTRL1,
     set_append_status |-> PKTCTRL1, set_address_check |-> PKTCTRL1,
     set_white_data |-> PKTCTRL0, set_pkt_format |-> PKTCTRL0,
     set_crc |-> PKTCTRL0, set_length_config |-> PKTCTRL0,
     set_dc_filter |-> MDMCFG2, set_modulation |-> MDMCFG2,
     set_manchester |-> MDMCFG2, set_sync_mode |-> MDMCFG2,
     set_fec |-> MDMCFG1, set_pre |-> MDMCFG1, set_channel_spacing |-> MDMCFG1,
     set_rx_bandwidth |-> MDMCFG4, set_data_rate |-> MDMCFG4]

\* the tasks of the event loop: task 1 transmits, task 2 receives, task 3
\* configures the radio while the other two are in their calls
SharingTasks == {1, 2, 3}

\* a setter is called by a task that is running, not suspended in a loop
Running == \E t \in DOMAIN pc : pc[t] = "idle"

\* the setters called in one behaviour are those of one register
OnRegister(addr) ==
    last.op = "none" \/ (last.op \in DOMAIN SetterRegister /\ SetterRegister[last.op] = addr)

InitShared ==
    /\ regs = ZeroRegs
    /\ InitTasksOf(SharingTasks)
    /\ last = NoCall(regs)
    /\ configFile = Missing
    /\ InitManager("None")

NextShared ==
    \/ \E payload \in SharedPayloads, m \in SharedMarcStates : send_data(1, payload, m)
    \/ \E m \in SharedMarcStates : send_data_wake(1, m)
    \/ \E count \in SharedRxCounts : receive_data(2, count)
    \/ \E count \in SharedRxCounts : receive_data_wake(2, count)
    \/ \E v \in SharedField3Args : Running /\ OnRegister(PKTCTRL1) /\ set_pqt(v)
    \/ \E enable \in BOOLEAN : Running /\ OnRegister(PKTCTRL1) /\ set_crc_af(enable)
    \/ \E enable \in BOOLEAN : Running /\ OnRegister(PKTCTRL1) /\ set_append_status(enable)
    \/ \E v \in SharedField2Args : Running /\ OnRegister(PKTCTRL1) /\ set_address_check(v)
    \/ \E enable \in BOOLEAN : Running /\ OnRegister(PKTCTRL0) /\ set_white_data(enable)
    \/ \E v \in SharedField2Args : Running /\ OnRegister(PKTCTRL0) /\ set_pkt_format(v)
    \/ \E enable \in BOOLEAN : Running /\ OnRegister(PKTCTRL0) /\ set_crc(enable)
    \/ \E v \in SharedField2Args : Running /\ OnRegister(PKTCTRL0) /\ set_length_config(v)
    \/ \E enable \in BOOLEAN : Running /\ OnRegister(MDMCFG2) /\ set_dc_filter(enable)
    \/ \E m \in SharedModulations : Running /\ OnRegister(MDMCFG2) /\ set_modulation(m)
    \/ \E enable \in BOOLEAN : Running /\ OnRegister(MDMCFG2) /\ set_manchester(enable)
    \/ \E v \in SharedField3Args : Running /\ OnRegister(MDMCFG2) /\ set_sync_mode(v)
    \/ \E enable \in BOOLEAN : Running /\ OnRegister(MDMCFG1) /\ set_fec(enable)
    \/ \E v \in SharedField3Args : Running /\ OnRegister(MDMCFG1) /\ set_pre(v)
    \/ \E s \in SharedSpacings : Running /\ OnRegister(MDMCFG1) /\ set_channel_spacing(s)
    \/ \E b \in SharedRxBandwidths : Running /\ OnRegister(MDMCFG4) /\ set_rx_bandwidth(b)
    \/ \E r \in SharedDataRates : Running /\ OnRegister(MDMCFG4) /\ set_data_rate(r[1], r[2])

SpecShared == InitShared /\ [][NextShared]_vars

\* the bits <<high, low>> of the field each setter sets
SetterField ==
    [set_pqt |-> <<7, 5>>, set_crc_af |-> <<3, 3>>,
     set_append_status |-> <<2, 2>>, set_address_check |-> <<1, 0>>,
     set_white_data |-> <<6, 6>>, set_pkt_format |-> <<5, 4>>,
     set_crc |-> <<2, 2>>, set_length_config |-> <<1, 0>>,
     set_dc_filter |-> <<7, 7>>, set_modulation |-> <<6, 4>>,
     set_manchester |-> <<3, 3>>, set_sync_mode |-> <<2, 0>>,
     set_fec |-> <<7, 7>>, set_pre |-> <<6, 4>>, set_channel_spacing |-> <<1, 0>>,
     set_rx_bandwidth |-> <<7, 4>>, set_data_rate |-> <<3, 0>>]

IsFieldSetter(op) == op \in DOMAIN SetterRegister

\* the step is a call of a field setter
SetterStep == last' # last /\ IsFieldSetter(last'.op)

\* the step is no run of a task's coroutine: no call of send_data or
\* receive_data starts, resumes or puts an operation on the bus
NoTaskRuns == pc' = pc /\ call' = call /\ busLog' = busLog /\ txFifo' = txFifo

\* the call read its register and then wrote it back
ReadThenWriteBack(log, addr, value) ==
    \E i \in 1..Len(log), j \in 1..Len(log) :
        /\ i < j
        /\ log[i] = read_reg(addr, value)
        /\ log[j].op = "write_reg"
        /\ log[j].addr = addr

\* the call before this one set another field of the same register, and
\* that field still holds what it held before this call
EarlierUpdateKept ==
    (/\ IsFieldSetter(last.op)
     /\ last.ret = Returned("None", <<>>)
     /\ SetterRegister[last.op] = SetterRegister[last'.op]
     /\ SetterField[last.op] # SetterField[last'.op]) =>
        LET addr == SetterRegister[last.op]
            field == SetterField[last.op]
        IN  Bits(regs'[addr], field[1], field[2]) = Bits(regs[addr], field[1], field[2])

\* C29: every composite-register field setter performs its register read and
\* its write-back in one run, with no suspension point in between: whatever
\* tasks share the controller, also tasks suspended in the poll loops of
\* send_data and receive_data, no bus operation of a task occurs between the
\* read and the write, and an update of one field is not lost to the update
\* of another field of the same register that follows it.
C29_SettersAtomic ==
    [][SetterStep =>
          /\ NoTaskRuns
          /\ ReadThenWriteBack(last'.log, SetterRegister[last'.op],
                               regs[SetterRegister[last'.op]])
          /\ EarlierUpdateKept]_vars

\* the values a call handed to write_reg
WrittenValues(log) ==
    {log[i].arg[1] : i \in {k \in 1..Len(log) : log[k].op = "write_reg"}}

\* C31: for every initial register content 0..255 and every setter argument
\* within its documented range, every value the controller writes to a chip
\* register is an integer in 0..255, after any sequence of setter calls:
\* here for the setters of MDMCFG2.
C31_WrittenValuesAreBytes ==
    (/\ last.op \in {"set_dc_filter", "set_manchester", "set_sync_mode", "set_modulation"}
     /\ last.arg[1] <= 7) =>
        \A v \in WrittenValues(last.log) : v \in 0..255

============================================================================
